---- MODULE Spec2Model ----
\* A model of the DHIS2 user manager (src/unnamed/part_001, the App component):
\* the retrying transport, the connection monitor, the batch import engine with
\* its resolver, and the deletion, password and export pipelines.
\*
\* Conventions of the model
\*  - A handler runs atomically from the event that resumes it up to its next
\*    await; a request in flight is a position (pc) of the run or record.
\*  - In the pipelines a call of apiRequest is one request with one final
\*    outcome; its attempts, waits and warnings are modelled by the transport
\*    machine (SpecTransport).
\*  - log holds the lines appended from the sequential control flow, in order;
\*    the lines a record of an import chunk appends are kept with the record
\*    (msgs), since their order among siblings depends on the interleaving.
EXTENDS Integers, Sequences, FiniteSets, TLC

\* ------------------------------------------------------------------ bounds

\* Largest number of records in an uploaded file.
MaxUsers == 2

\* Largest number of pages the server serves to one export run.
MaxPages == 3

\* A probe failure is explored only while the monitor's counter is below this.
MaxFailures == 4

\* Largest number of runs of the monitor's effect that still have a probe in
\* flight or scheduled, and largest number of such probes of one run.
MaxEffects == 2

MaxProbes == 2

\* An event of the environment (a click) is explored only while the log is
\* shorter than this; the lines of a run in progress are never cut.
MaxLog == 5

\* ------------------------------------------------------------- constants

\* appendLog keeps the last 100 lines.
LogCap == 100

\* The options of the batch-size select.
BatchSizes == {1, 2, 5, 10}

\* The value of batchSize after construction.
DefaultBatchSize == 2

NoError == "null"

\* No call of processUsers is active; the record keeps of the last run the
\* records it was given (retryUsers), failedUsers as it was when the run began
\* (before) and the results of the chunks it dispatched, in order.
NoRun == [pc |-> "idle", retryUsers |-> <<>>, before |-> <<>>, results |-> <<>>]

NoCall == [pc |-> "idle"]

\* A run of the monitor's effect: the connectionStatus its closure holds
\* (seen), its counter of failures, its probes in flight and the delays of its
\* backoff timers that have not fired.
Effect(seen, inflight) ==
    [seen |-> seen, retries |-> 0, inflight |-> inflight, timers |-> <<>>]

\* No call of deleteSelectedUsers is active; done keeps the calls of deleteUser
\* of the last run: the requests each sent, their outcomes, and its result.
NoDeletion == [pc |-> "idle", done |-> <<>>]

\* No call of processPasswordUpdates is active; done keeps the records the last
\* run handled: the requests sent for each, their outcomes, the two counts
\* after it, and the line logged for it.
NoPassword == [pc |-> "idle", done |-> <<>>]

\* No call of exportUsersToCSV is active, and none has been. Beside the locals
\* of the call the record keeps what the run was given and how it ended:
\* firsts (per id the first user served with it, in order), dups (the users
\* served with an id seen before), totalPages (of the last pager; 0: none),
\* before (exportedUsers when the run began) and ended. nextUrl is the page
\* the url to fetch refers to (0: null).
NoExport ==
    [pc |-> "idle", seenIds |-> {}, usersList |-> <<>>, pageCount |-> 0, nextUrl |-> 0,
     firsts |-> <<>>, dups |-> 0, totalPages |-> 0, before |-> <<>>, ended |-> "none"]

\* A ratio n / d in lowest terms.
RECURSIVE GCD(_, _)
GCD(a, b) == IF b = 0 THEN a ELSE GCD(b, a % b)

Ratio(n, d) == [n |-> n \div GCD(n, d), d |-> d \div GCD(n, d)]

Zero == Ratio(0, 1)

VARIABLES
    users,             \* the uploaded records
    failedUsers,       \* the records that failed in the last import run
    importStats,       \* {success, failed} of the last import run
    processing,        \* an import, deletion or export run is active
    progress,          \* progress of the import / password run
    batchSize,         \* the selected batch size
    connectionStatus,  \* "checking...", "connected" or "disconnected"
    shouldStop,        \* shouldStop.current, the cancellation flag
    log,               \* the activity log
    run,               \* the locals of the active processUsers call, or NoRun
    chunk,             \* the records of the chunk in flight (processBatch)
    call,              \* the apiRequest call of the transport machine
    passwordUsers,     \* the records of the uploaded password file
    processingPasswords, \* a password run is active
    pw,                \* the locals of the active processPasswordUpdates call
    exportProgress,    \* progress of the export run, a ratio
    exportedUsers,     \* the rows of the last export
    ex,                \* the locals of the active exportUsersToCSV call
    selectedUsers,     \* the rows selected for deletion
    del,               \* the locals of the active deleteSelectedUsers call
    monitor,           \* the runs of the monitor's effect that can still act
    activeTab,         \* the tab on display: "import", "export" or "passwords"
    isFilterOpen,      \* the export filters are unfolded
    serverUsers        \* the ids of the exported users the server still holds

\* The variables of the import engine alone.
importVars == <<users, failedUsers, importStats, batchSize, shouldStop, run, chunk>>

\* The variables of the transport machine.
transportVars == <<call>>

\* The variables of the password pipeline alone.
pwVars == <<passwordUsers, processingPasswords, pw>>

\* The variables of the export pipeline.
exVars == <<exportProgress, exportedUsers, ex>>

\* The variables of the deletion pipeline alone.
delVars == <<selectedUsers, del>>

\* The variables of the connection monitor alone.
monVars == <<monitor>>

\* The variables of the view alone.
viewVars == <<activeTab, isFilterOpen>>

\* The state of the server.
serverVars == <<serverUsers>>

\* The variables no step of the import engine changes.
outsideImport == <<transportVars, pwVars, exVars, delVars, monVars, viewVars, serverVars>>

\* The variables no step of the transport machine changes, the log apart.
outsideTransport ==
    <<importVars, processing, progress, connectionStatus, pwVars, exVars, delVars,
      monVars, viewVars, serverVars>>

vars == <<users, failedUsers, importStats, processing, progress, batchSize,
          connectionStatus, shouldStop, log, run, chunk, call, passwordUsers,
          processingPasswords, pw, exportProgress, exportedUsers, ex,
          selectedUsers, del, monitor, activeTab, isFilterOpen,
          serverUsers>>

\* The other machines at rest, with nothing uploaded, exported or selected.
OthersIdle ==
    /\ passwordUsers = <<>>
    /\ processingPasswords = FALSE
    /\ pw = NoPassword
    /\ exportProgress = Zero
    /\ exportedUsers = <<>>
    /\ ex = NoExport
    /\ selectedUsers = <<>>
    /\ del = NoDeletion
    /\ monitor = <<Effect(connectionStatus, 0)>>
    /\ activeTab = "import"
    /\ isFilterOpen = FALSE
    /\ serverUsers = {exportedUsers[k].id : k \in 1..Len(exportedUsers)}

\* ------------------------------------------------------------- utilities

Min(a, b) == IF a < b THEN a ELSE b

\* Math.round of the non-negative rational a / b.
MathRound(a, b) == (2 * a + b) \div (2 * b)

\* Math.ceil of the non-negative rational a / b.
MathCeil(a, b) == (a + b - 1) \div b

\* Array.prototype.slice(from, to) with 0-based bounds.
Slice(s, from, to) == SubSeq(s, from + 1, Min(to, Len(s)))

\* A line of the log: the message (its text first, then the values it
\* interpolates) and the severity.
Entry(message, type) == [message |-> message, type |-> type]

\* An appendLog that keeps every line.
appendLogUnbounded(l, message, type) == Append(l, Entry(message, type))

\* appendLog: the line is appended and the last LogCap lines are kept.
appendLog(l, message, type) ==
    LET newLog == Append(l, Entry(message, type))
    IN  IF Len(newLog) > LogCap
        THEN SubSeq(newLog, Len(newLog) - LogCap + 1, Len(newLog))
        ELSE newLog

\* ------------------------------------------------------------- records

\* A record of an uploaded file: username 0 stands for a missing or empty
\* username, userRoles and organisationUnits are the lengths of the arrays.
User(name, roles, ous) ==
    [username |-> name, userRoles |-> roles, organisationUnits |-> ous]

\* The variants of the record at position k of a file.
Variants(k) ==
    {User(k, 1, 1), User(0, 1, 1), User(k, 0, 1), User(k, 1, 0)}

UserLists ==
    UNION {{s \in [1..n -> UNION {Variants(k) : k \in 1..n}] :
               \A k \in 1..n : s[k] \in Variants(k)} : n \in 1..MaxUsers}

\* A validateUser that does not check organisationUnits.
validateUserNoOrgUnits(user) ==
    IF user.username = 0 THEN "Username is required"
    ELSE IF user.userRoles = 0 THEN "At least one user role is required"
    ELSE NoError

validateUser(user) ==
    IF user.username = 0 THEN "Username is required"
    ELSE IF user.userRoles = 0 THEN "At least one user role is required"
    ELSE IF user.organisationUnits = 0
         THEN "At least one organization unit is required"
    ELSE NoError

\* --------------------------------------------------------------- resolver

\* A record of a dispatched chunk: the position of its resolver (the request
\* it awaits, or "done"), the requests sent for it so far and the outcomes of
\* those that were answered, the lines it has logged, and its result once done.
Rec(user, pc, sent, msgs, success) ==
    [user |-> user, pc |-> pc, sent |-> sent, answers |-> <<>>, msgs |-> msgs,
     success |-> success]

\* The final outcomes of the request a record awaits.
Outcomes(pc) ==
    CASE pc \in {"lookup", "conflictLookup"} -> {"found", "none", "error"}
      [] pc = "create" -> {"ok", "conflict", "error"}
      [] pc = "update" -> {"ok", "error"}
      [] OTHER -> {}

\* getUserId: the id of the first user of the answer, null when there is none
\* or when the request failed (which is logged).
getUserId(outcome) ==
    [id   |-> outcome = "found",
     msgs |-> IF outcome = "error"
              THEN <<Entry(<<"Error fetching user ID">>, "warning")>> ELSE <<>>]

\* The return of a record's async callback: { user, success }.
Result(rec, success, msgs) ==
    [rec EXCEPT !.pc = "done", !.success = success, !.msgs = @ \o msgs]

\* A request is sent for the record and awaited.
Send(rec, method, pc, msgs) ==
    [rec EXCEPT !.pc = pc, !.sent = Append(@, method), !.msgs = @ \o msgs]

\* The first request of a record's callback in processBatch.
FirstRequest(user) == Rec(user, "lookup", <<"GET">>, <<>>, FALSE)

\* processBatch, after its getUserId: update the id found, else create.
AfterLookup(rec, outcome) ==
    LET r == getUserId(outcome)
    IN  IF r.id THEN Send(rec, "PUT", "update", r.msgs)
        ELSE Send(rec, "POST", "create", r.msgs)

\* updateUser, after its PUT: true, or false when the request failed.
AfterUpdate(rec, outcome) ==
    IF outcome = "ok"
    THEN Result(rec, TRUE, <<Entry(<<"Updated user">>, "success")>>)
    ELSE Result(rec, FALSE, <<Entry(<<"Error updating user">>, "error")>>)

\* createUser, after its POST: true, the conflict path on 409, else false.
AfterCreate(rec, outcome) ==
    CASE outcome = "ok" ->
            Result(rec, TRUE, <<Entry(<<"Created user">>, "success")>>)
      [] outcome = "conflict" -> Send(rec, "GET", "conflictLookup", <<>>)
      [] OTHER -> Result(rec, FALSE, <<Entry(<<"Error for user">>, "error")>>)

\* createUser, after the getUserId of its conflict path.
AfterConflictLookup(rec, outcome) ==
    LET r == getUserId(outcome)
    IN  IF r.id
        THEN Send(rec, "PUT", "update",
                  r.msgs \o <<Entry(<<"Conflict: Updating user">>, "warning")>>)
        ELSE Result(rec, FALSE,
                  r.msgs \o <<Entry(<<"Conflict and ID not found">>, "error")>>)

\* The callback of a record resumed by the outcome of the request it awaits.
Resume(rec, outcome) ==
    LET answered == [rec EXCEPT !.answers = Append(@, outcome)]
    IN  CASE rec.pc = "lookup" -> AfterLookup(answered, outcome)
          [] rec.pc = "update" -> AfterUpdate(answered, outcome)
          [] rec.pc = "create" -> AfterCreate(answered, outcome)
          [] rec.pc = "conflictLookup" -> AfterConflictLookup(answered, outcome)

\* processBatch: every record's callback runs up to its first await.
processBatch(batch) == [k \in 1..Len(batch) |-> FirstRequest(batch[k])]

\* Promise.all(promises) has resolved.
AllDone(c) == \A k \in 1..Len(c) : c[k].pc = "done"

\* ----------------------------------------------------------- processUsers

\* The condition of the for loop of processUsers.
ContinueLoop(i, n, stop) == i < n /\ ~stop

\* The increment of the for loop.
NextIndex(i, size) == i + size

\* A chunk that takes one record too many.
BatchOneMore(retryUsers, i, size) == Slice(retryUsers, i, i + size + 1)

\* The records of the chunk that starts at index i.
Batch(retryUsers, i, size) == Slice(retryUsers, i, i + size)

\* The value given to setProgress after the chunk that starts at index i.
ProgressAfter(i, size, n) == MathRound((i + size) * 100, n)

\* batchResults.forEach: the counts and the failed list after chunk c.
RECURSIVE Tally(_, _)
Tally(r, c) ==
    IF c = <<>> THEN r
    ELSE Tally(IF Head(c).success
               THEN [r EXCEPT !.successCount = @ + 1]
               ELSE [r EXCEPT !.errorCount = @ + 1,
                              !.failed = Append(@, Head(c).user)],
               Tail(c))

\* A forEach that puts the failed records of a chunk before those of the
\* chunks before it.
ResultsFailedFirst(r, c) ==
    [Tally(r, c) EXCEPT
        !.failed = SubSeq(Tally(r, c).failed, Len(r.failed) + 1, Len(Tally(r, c).failed))
                   \o r.failed,
        !.results = @ \o [k \in 1..Len(c) |-> [user |-> c[k].user,
                                               success |-> c[k].success,
                                               sent |-> c[k].sent,
                                               answers |-> c[k].answers]]]

\* The locals r with the results of chunk c added to those of the run.
Results(r, c) ==
    [Tally(r, c) EXCEPT
        !.results = @ \o [k \in 1..Len(c) |-> [user |-> c[k].user,
                                               success |-> c[k].success,
                                               sent |-> c[k].sent,
                                               answers |-> c[k].answers]]]

\* The idle record after the run with locals r.
EndedRun(r) ==
    [NoRun EXCEPT !.retryUsers = r.retryUsers, !.before = r.before,
                  !.results = r.results]

\* The locals of processUsers before its loop.
NewRun(retryUsers, size, before) ==
    [pc |-> "chunk", retryUsers |-> retryUsers, batchSize |-> size, i |-> 0,
     successCount |-> 0, errorCount |-> 0, failed |-> <<>>,
     before |-> before, results |-> <<>>,
     totalBatches |-> MathCeil(Len(retryUsers), size)]

\* The summary line of a run.
Summary(r, stop) ==
    Entry(<<IF stop THEN "Process stopped" ELSE "Process completed",
            r.successCount, r.errorCount>>,
          IF r.errorCount > 0 THEN "warning" ELSE "success")

\* The for loop at its condition with locals r and log l: the next chunk is
\* dispatched and awaited, or the loop is left.
Loop(r, l, stop) ==
    IF ContinueLoop(r.i, Len(r.retryUsers), stop)
    THEN [ended |-> FALSE, run |-> r,
          chunk |-> processBatch(Batch(r.retryUsers, r.i, r.batchSize)),
          log |-> appendLog(l, <<"Processing batch", (r.i \div r.batchSize) + 1,
                                 r.totalBatches>>, "info")]
    ELSE [ended |-> TRUE, run |-> r, chunk |-> <<>>, log |-> l]

\* A run that keeps the failed list of the run before and adds its own.
ContinueMerging(step, stop, failedNow) ==
    IF step.ended
    THEN /\ failedUsers' = failedUsers \o step.run.failed
         /\ importStats' = [success |-> step.run.successCount,
                            failed |-> step.run.errorCount]
         /\ log' = appendLog(step.log, Summary(step.run, stop).message,
                             Summary(step.run, stop).type)
         /\ processing' = FALSE
         /\ run' = EndedRun(step.run)
         /\ chunk' = <<>>
    ELSE /\ failedUsers' = failedUsers
         /\ importStats' = importStats
         /\ log' = step.log
         /\ processing' = TRUE
         /\ run' = step.run
         /\ chunk' = step.chunk

\* A run whose end leaves processing set.
ContinueKeepsProcessing(step, stop, failedNow) ==
    IF step.ended
    THEN /\ failedUsers' = step.run.failed
         /\ importStats' = [success |-> step.run.successCount,
                            failed |-> step.run.errorCount]
         /\ log' = appendLog(step.log, Summary(step.run, stop).message,
                             Summary(step.run, stop).type)
         /\ processing' = TRUE
         /\ run' = EndedRun(step.run)
         /\ chunk' = <<>>
    ELSE /\ failedUsers' = failedNow
         /\ importStats' = importStats
         /\ log' = step.log
         /\ processing' = TRUE
         /\ run' = step.run
         /\ chunk' = step.chunk

\* The state after the loop was entered or left: a chunk is awaited, or the
\* code after the loop has stored the failed list and the counts, logged the
\* summary and ended processing. failedNow is failedUsers as the run last set it.
Continue(step, stop, failedNow) ==
    IF step.ended
    THEN /\ failedUsers' = step.run.failed
         /\ importStats' = [success |-> step.run.successCount,
                            failed |-> step.run.errorCount]
         /\ log' = appendLog(step.log, Summary(step.run, stop).message,
                             Summary(step.run, stop).type)
         /\ processing' = FALSE
         /\ run' = EndedRun(step.run)
         /\ chunk' = <<>>
    ELSE /\ failedUsers' = failedNow
         /\ importStats' = importStats
         /\ log' = step.log
         /\ processing' = TRUE
         /\ run' = step.run
         /\ chunk' = step.chunk

\* processUsers(retryUsers) up to its first await.
processUsers(retryUsers) ==
    LET invalidUsers == SelectSeq(retryUsers, LAMBDA u : validateUser(u) # NoError)
    IN  IF Len(invalidUsers) > 0
        THEN /\ log' = appendLog(log, <<"Invalid users detected", Len(invalidUsers)>>,
                                 "warning")
             /\ UNCHANGED <<users, failedUsers, importStats, processing, progress,
                            batchSize, connectionStatus, shouldStop, run, chunk>>
             /\ UNCHANGED outsideImport
        ELSE /\ shouldStop' = FALSE
             /\ progress' = 0
             /\ Continue(Loop(NewRun(retryUsers, batchSize, failedUsers),
                              appendLog(log, <<"Starting import", Len(retryUsers),
                                               MathCeil(Len(retryUsers), batchSize)>>,
                                        "info"),
                              FALSE),
                         FALSE, <<>>)
             /\ UNCHANGED <<users, batchSize, connectionStatus>>
             /\ UNCHANGED outsideImport

\* A loop body that leaves the loop when a record of the chunk failed.
AfterBatchAbortOnFailure(r, c, l, stop) ==
    IF stop \/ \E k \in 1..Len(c) : ~c[k].success
    THEN [ended |-> TRUE, run |-> Results(r, c), chunk |-> <<>>, log |-> l]
    ELSE Loop([Results(r, c) EXCEPT !.i = NextIndex(@, r.batchSize)], l, stop)

\* A loop body that does not read the cancellation flag.
AfterBatchIgnoresStop(r, c, l, stop) ==
    Loop([Results(r, c) EXCEPT !.i = NextIndex(@, r.batchSize)], l, FALSE)

\* The loop body after the await of processBatch, with the results c.
AfterBatch(r, c, l, stop) ==
    IF stop
    THEN [ended |-> TRUE, run |-> Results(r, c), chunk |-> <<>>, log |-> l]
    ELSE Loop([Results(r, c) EXCEPT !.i = NextIndex(@, r.batchSize)], l, stop)

\* A request of a record of the chunk in flight is answered. The callback of
\* the record resumes; when it was the last one of the chunk, Promise.all
\* resolves and processUsers resumes in the same task.
Respond(k, outcome) ==
    /\ run.pc = "chunk"
    /\ k \in 1..Len(chunk)
    /\ outcome \in Outcomes(chunk[k].pc)
    /\ UNCHANGED outsideImport
    /\ LET c == [chunk EXCEPT ![k] = Resume(@, outcome)]
       IN  IF ~AllDone(c)
           THEN /\ chunk' = c
                /\ UNCHANGED <<users, failedUsers, importStats, processing, progress,
                               batchSize, connectionStatus, shouldStop, log, run>>
           ELSE /\ progress' = ProgressAfter(run.i, run.batchSize, Len(run.retryUsers))
                /\ Continue(AfterBatch(run, c, log, shouldStop), shouldStop, failedUsers)
                /\ UNCHANGED <<users, batchSize, connectionStatus, shouldStop>>

\* ------------------------------------------------------------ the buttons

\* A Start Import button that does not look at the connection.
StartImportDisabledNoGate == processing \/ Len(users) = 0

StartImportDisabled ==
    processing \/ Len(users) = 0 \/ connectionStatus # "connected"

RetryFailedDisabled ==
    processing \/ Len(failedUsers) = 0 \/ connectionStatus # "connected"

StopDisabled == ~processing

\* Start Import (or Ctrl+I), confirmed: confirmImport.
ClickStartImport ==
    /\ Len(log) < MaxLog
    /\ IF StartImportDisabled THEN UNCHANGED vars ELSE processUsers(users)

\* Retry Failed, confirmed: retryFailedImports.
ClickRetryFailed ==
    /\ Len(log) < MaxLog
    /\ IF RetryFailedDisabled THEN UNCHANGED vars
       ELSE IF Len(failedUsers) = 0
            THEN /\ log' = appendLog(log, <<"No failed users to retry">>, "warning")
                 /\ UNCHANGED <<users, failedUsers, importStats, processing, progress,
                                batchSize, connectionStatus, shouldStop, run, chunk>>
                 /\ UNCHANGED outsideImport
            ELSE processUsers(failedUsers)

\* Stop: stopProcessing. A second click while the flag is set adds a line only.
ClickStop ==
    /\ ~shouldStop
    /\ IF StopDisabled THEN UNCHANGED vars
       ELSE /\ shouldStop' = TRUE
            /\ log' = appendLog(log, <<"Stopping process after current batch completes">>,
                                "warning")
            /\ UNCHANGED <<users, failedUsers, importStats, processing, progress,
                           batchSize, connectionStatus, run, chunk>>
            /\ UNCHANGED outsideImport

\* The batch-size select.
SelectBatchSize(size) ==
    /\ Len(log) < MaxLog
    /\ size \in BatchSizes
    /\ batchSize' = size
    /\ UNCHANGED <<users, failedUsers, importStats, processing, progress,
                   connectionStatus, shouldStop, log, run, chunk>>
    /\ UNCHANGED outsideImport

\* ---------------------------------------------------- the import engine

\* The app connected with a file loaded and the log cleared.
Init ==
    /\ users \in UserLists
    /\ failedUsers = <<>>
    /\ importStats = [success |-> 0, failed |-> 0]
    /\ processing = FALSE
    /\ progress = 0
    /\ batchSize = DefaultBatchSize
    /\ connectionStatus = "connected"
    /\ shouldStop = FALSE
    /\ log = appendLog(<<>>, <<"Cleared activity logs">>, "success")
    /\ run = NoRun
    /\ chunk = <<>>
    /\ call = NoCall
    /\ OthersIdle

Next ==
    \/ ClickStartImport
    \/ ClickRetryFailed
    \/ ClickStop
    \/ \E size \in BatchSizes : SelectBatchSize(size)
    \/ \E k \in 1..MaxUsers, outcome \in {"found", "none", "error", "ok", "conflict"} :
          Respond(k, outcome)

Spec == Init /\ [][Next]_vars

\* Every request in flight is answered at last: each attempt of the transport
\* ends within its timeout, and the attempts of a request are at most three.
SpecAnswered ==
    /\ Spec
    /\ WF_vars(\E k \in 1..MaxUsers,
                   outcome \in {"found", "none", "error", "ok", "conflict"} :
                   Respond(k, outcome))

\* ------------------------------------------------------- claims: import

Running == run.pc = "chunk"

\* The text of a line of the log.
Text(e) == e.message[1]

\* The index of the last line of l with the given text, 0 when there is none.
LastLine(l, text) ==
    LET at == {j \in 1..Len(l) : Text(l[j]) = text}
    IN  IF at = {} THEN 0 ELSE CHOOSE j \in at : \A m \in at : m <= j

\* The number of records of the run most recently started, from its first line.
StartedCount == log[LastLine(log, "Starting import")].message[2]

\* The number of chunks announced since the run most recently started.
ChunksAnnounced ==
    Cardinality({j \in LastLine(log, "Starting import")..Len(log) :
                    j > 0 /\ Text(log[j]) = "Processing batch"})

\* The run most recently started has ended, and was not cancelled.
Completed == ~processing /\ Len(log) > 0 /\ Text(log[Len(log)]) = "Process completed"

\* The run most recently started has ended on a cancellation.
Stopped == ~processing /\ Len(log) > 0 /\ Text(log[Len(log)]) = "Process stopped"

CeilDiv(n, d) == IF n % d = 0 THEN n \div d ELSE (n \div d) + 1

\* A record fails validation: empty username, no role or no organisation unit.
Invalid(u) == u.username = 0 \/ u.userRoles = 0 \/ u.organisationUnits = 0

InvalidCount(s) == Cardinality({k \in 1..Len(s) : Invalid(s[k])})

InFlight == Cardinality({k \in 1..Len(chunk) : chunk[k].pc # "done"})

\* C1: with an invalid record in the file, no start of an import sends a
\* request or processes a record: no run and no chunk exists, processing,
\* progress, failedUsers and importStats keep their values, and each attempt
\* logs one warning with the number of invalid records.
C1_InvalidFileAborts ==
    InvalidCount(users) > 0 =>
        /\ run = NoRun
        /\ chunk = <<>>
        /\ ~processing
        /\ progress = 0
        /\ failedUsers = <<>>
        /\ importStats = [success |-> 0, failed |-> 0]
        /\ \A j \in 2..Len(log) :
              log[j] = Entry(<<"Invalid users detected", InvalidCount(users)>>,
                             "warning")

\* A start was attempted on a file with a valid and an invalid record.
C1_Witness ==
    /\ InvalidCount(users) > 0
    /\ InvalidCount(users) < Len(users)
    /\ Len(log) >= 2

\* C3: the first request of every record is the create (POST), and a lookup
\* (GET) is sent for a record only right after its create.
C3_CreateFirst ==
    \A k \in 1..Len(chunk) :
        LET s == chunk[k].sent
        IN  /\ s[1] = "POST"
            /\ \A j \in 1..Len(s) : s[j] = "GET" => (j > 1 /\ s[j - 1] = "POST")

\* Every lookup of the record resolved an id, every create of it was answered
\* 409, and its update succeeded.
ExistingResolved(rec) ==
    /\ rec.pc = "done"
    /\ \A j \in 1..Len(rec.sent) :
          /\ rec.sent[j] = "GET" => (j < Len(rec.sent) /\ rec.sent[j + 1] = "PUT")
          /\ rec.sent[j] = "POST" => (j < Len(rec.sent) /\ rec.sent[j + 1] = "GET")
    /\ \A j \in 1..Len(rec.msgs) : Text(rec.msgs[j]) # "Error updating user"

\* C4: a record whose username exists and whose lookups resolve an id is a
\* success, at the cost of the create plus exactly one lookup and one update.
C4_IdempotentCost ==
    \A k \in 1..Len(chunk) :
        ExistingResolved(chunk[k]) =>
            /\ chunk[k].success
            /\ chunk[k].sent = <<"POST", "GET", "PUT">>

\* C5: every record of a chunk ends with exactly one result whatever happens to
\* its siblings, and the run goes on: while a chunk is in flight every record of
\* the chunks before it has been counted once, and a run that was not cancelled
\* ends with every record counted.
C5_FailureIsolated ==
    /\ Running =>
          /\ run.successCount + run.errorCount = run.i
          /\ Len(run.failed) = run.errorCount
          /\ Len(chunk) = Min(run.batchSize, Len(run.retryUsers) - run.i)
          /\ \A k \in 1..Len(chunk) :
                chunk[k].pc \in {"lookup", "update", "create", "conflictLookup", "done"}
    /\ Completed => importStats.success + importStats.failed = StartedCount

\* A chunk is in flight after a record of an earlier chunk failed.
C5_Witness == Running /\ run.errorCount > 0 /\ InFlight > 0

\* C6: the chunks are the contiguous slices of the input taken in order, one in
\* flight at a time: the records with a request are those of the current slice,
\* every record before it has completed, at most batchSize requests are in
\* flight, and a run that was not cancelled has dispatched ceil(N / b) chunks.
C6_ChunksSequential ==
    /\ Running =>
          LET n == Len(run.retryUsers)
              b == run.batchSize
          IN  /\ b \in BatchSizes
              /\ run.i % b = 0
              /\ run.i < n
              /\ [k \in 1..Len(chunk) |-> chunk[k].user]
                    = SubSeq(run.retryUsers, run.i + 1, Min(run.i + b, n))
              /\ run.successCount + run.errorCount = run.i
              /\ InFlight <= b
              /\ run.totalBatches = CeilDiv(n, b)
              /\ ChunksAnnounced = (run.i \div b) + 1
    /\ Completed =>
          \E b \in BatchSizes :
              /\ log[LastLine(log, "Starting import")].message[3] = CeilDiv(StartedCount, b)
              /\ ChunksAnnounced = CeilDiv(StartedCount, b)

\* The second chunk of a run is in flight with batchSize requests.
C6_Witness == Running /\ run.i > 0 /\ InFlight = run.batchSize

\* C7: once stop is requested while a chunk is in flight, no later chunk is
\* dispatched; the chunk completes and is counted, and the failed list stored at
\* the end holds only records of the chunks dispatched.
C7_StopAfterChunk ==
    [][(Running /\ shouldStop) =>
          /\ run'.pc = "chunk" => run'.i = run.i
          /\ run'.pc = "idle" =>
                /\ importStats'.success + importStats'.failed = run.i + Len(chunk)
                /\ Len(failedUsers') = importStats'.failed
                /\ \A j \in 1..Len(failedUsers') :
                      \E m \in 1..(run.i + Len(chunk)) :
                          run.retryUsers[m] = failedUsers'[j]]_vars

\* A run was cancelled before its last chunk.
C7_Witness ==
    Stopped /\ importStats.success + importStats.failed < StartedCount

\* C8: after each chunk progress is round(processed / total * 100), with
\* processed the number of records dispatched, and it never exceeds 100.
C8_ProgressRounded ==
    /\ progress <= 100
    /\ Running => progress = MathRound(run.i * 100, Len(run.retryUsers))
    /\ Completed => progress = 100

\* The lines of l whose text is one of texts.
Lines(l, texts) == SelectSeq(l, LAMBDA e : Text(e) \in texts)

\* The summary lines of the import runs in l.
ImportSummaries(l) == Lines(l, {"Process completed", "Process stopped"})

\* C25: when an import run completes or is cancelled, failedUsers becomes the
\* list of the records that failed in this run, with no entry of an earlier
\* run, and one summary line is logged for the run, a warning if a record
\* failed and a success otherwise; no other step logs a summary.
C25_FailedReplacedOneSummary ==
    [][/\ (Running /\ run'.pc = "idle") =>
             /\ Len(failedUsers') = importStats'.failed
             /\ importStats'.failed <= run.errorCount + Len(chunk)
             /\ \A k \in 1..Len(run.failed) : failedUsers'[k] = run.failed[k]
             /\ \A k \in 1..Len(failedUsers') :
                   \E m \in 1..Len(run.retryUsers) : run.retryUsers[m] = failedUsers'[k]
             /\ Len(log') = Len(log) + 1
             /\ Text(log'[Len(log')]) \in {"Process completed", "Process stopped"}
             /\ log'[Len(log')].message[3] = Len(failedUsers')
             /\ log'[Len(log')].type =
                   (IF Len(failedUsers') > 0 THEN "warning" ELSE "success")
       /\ Len(ImportSummaries(log')) =
             Len(ImportSummaries(log)) + (IF Running /\ run'.pc = "idle" THEN 1 ELSE 0)]_vars

\* A run left a failed record, and the retry of it succeeded: the list is
\* empty and the log has the warning of the first run and the success of the
\* second.
C25_Witness ==
    /\ ~Running
    /\ failedUsers = <<>>
    /\ Len(ImportSummaries(log)) = 2
    /\ ImportSummaries(log)[1].type = "warning"
    /\ ImportSummaries(log)[2].type = "success"

\* C27: progress is reset to 0 when a run starts and when it ends, whether
\* the run completed, was cancelled or failed.
C27_ProgressReset ==
    [][/\ (~Running /\ run'.pc # "idle") => progress' = 0
       /\ (Running /\ run'.pc = "idle") => progress' = 0]_vars

\* An import run has ended and none has begun since.
ImportEnded == run.pc = "idle" /\ run.retryUsers # <<>>

\* The records of the last run whose result was a failure, in dispatch order.
FailedResults ==
    [k \in 1..Len(SelectSeq(run.results, LAMBDA res : ~res.success)) |->
        SelectSeq(run.results, LAMBDA res : ~res.success)[k].user]

\* C31: at the end of an import run, completed or cancelled, the two counts
\* add up to the number of records of the chunks that were dispatched,
\* the failure count is the length of failedUsers, and failedUsers is, in
\* input order, the dispatched records whose result was a failure.
C31_ImportConservation ==
    ImportEnded =>
        /\ Len(run.results) <= Len(run.retryUsers)
        /\ \A k \in 1..Len(run.results) : run.results[k].user = run.retryUsers[k]
        /\ importStats.success + importStats.failed = Len(run.results)
        /\ importStats.failed = Len(failedUsers)
        /\ failedUsers = FailedResults

\* A run of two records in chunks of one was cancelled after its first chunk,
\* whose record failed.
C31_Witness ==
    /\ ImportEnded
    /\ Stopped
    /\ Len(run.retryUsers) = 2
    /\ Len(run.results) = 1
    /\ failedUsers = <<run.retryUsers[1]>>

\* The last run was a retry: it was given the failed list as it was.
RetryEnded == ImportEnded /\ run.before # <<>> /\ run.retryUsers = run.before

\* C32: a record that was in failedUsers before a retry run and was not
\* processed with success during the retry is in failedUsers when the retry
\* ends, also when the retry was cancelled before the chunk of the record.
C32_RetryKeepsFailed ==
    RetryEnded =>
        \A k \in 1..Len(run.before) :
            (k > Len(run.results) \/ ~run.results[k].success) =>
                \E m \in 1..Len(failedUsers) : failedUsers[m] = run.before[k]

\* C38: when every request is answered at last, an import run that passed
\* validation ends, whatever the answers are and whether or not Stop is
\* pressed: it logs its summary and sets processing back to false; until then
\* processing is true.
C38_ImportTerminates ==
    /\ [](Running => processing)
    /\ Running ~> (/\ run.pc = "idle"
                   /\ ~processing
                   /\ Text(log[Len(log)]) \in {"Process completed", "Process stopped"})

\* Stop was pressed during the last chunk of a run of two records, and the
\* run has ended with both records handled.
C38_Witness ==
    /\ ImportEnded
    /\ Stopped
    /\ Len(run.results) = 2
    /\ Len(run.results) = Len(run.retryUsers)

\* The records of the run that were dispatched: those of the chunks that
\* have returned and those of the chunk in flight.
Dispatched ==
    run.results \o [k \in 1..Len(chunk) |-> [user |-> chunk[k].user,
                                              success |-> chunk[k].success,
                                              sent |-> chunk[k].sent,
                                              answers |-> chunk[k].answers]]

\* C34: a record whose username lookup failed with an error becomes a failure
\* and no create (POST) is sent for it; a create is sent for a record only
\* after a lookup that returned no id.
C34_FailedLookupIsFailure ==
    \A k \in 1..Len(Dispatched) :
        LET rec == Dispatched[k]
        IN  /\ (Len(rec.answers) > 0 /\ rec.answers[1] = "error") =>
                  /\ \A j \in 1..Len(rec.sent) : rec.sent[j] # "POST"
                  /\ ~rec.success
            /\ (\E j \in 1..Len(rec.sent) : rec.sent[j] = "POST") =>
                  rec.answers[1] = "none"

\* -------------------------------------------------------------- transport

\* apiRequest: the number of attempts and the base of the backoff.
maxRetries == 3

baseDelay == 1000

\* The timeout apiRequest gives every request.
RequestTimeout == 30000

\* The timeout deleteUser asks for its DELETE.
DeleteTimeout == 60000

\* Math.pow(2, n).
RECURSIVE Pow2(_)
Pow2(n) == IF n <= 0 THEN 1 ELSE 2 * Pow2(n - 1)

\* The configs the callers pass: a method, a url (relative to BASE_URL or
\* absolute) and, for the DELETE of deleteUser, a timeout (0: none given).
Configs ==
    [method : {"get", "post", "put", "delete"}, absolute : BOOLEAN,
     timeout : {0, DeleteTimeout}]

\* The request given to axios: the config with the url made absolute and the
\* timeout and headers set (the spread of config comes first).
Request(config) ==
    [method |-> config.method, absolute |-> TRUE, timeout |-> RequestTimeout]

\* The errors axios rejects with: no response (a network error or the client
\* timeout), or a response with a status outside 2xx and its body.
Errors ==
    {[code |-> "ERR_NETWORK", status |-> 0, body |-> "none"],
     [code |-> "ECONNABORTED", status |-> 0, body |-> "none"],
     [code |-> "ERR_BAD_REQUEST", status |-> 404, body |-> "not found"],
     [code |-> "ERR_BAD_REQUEST", status |-> 409, body |-> "conflict"],
     [code |-> "ERR_BAD_RESPONSE", status |-> 500, body |-> "server error"]}

\* The statuses axios resolves with.
OkStatuses == {200, 201, 204}

\* A backoff that starts at twice the base delay.
RetryDelayDoubled(attempt) == baseDelay * Pow2(attempt)

\* The wait after the failed attempt.
RetryDelay(attempt) == baseDelay * Pow2(attempt - 1)

\* A caller calls apiRequest(config): attempt 1 is sent.
CallApi(config) ==
    /\ call.pc = "idle"
    /\ call' = [pc |-> "inflight", config |-> config, attempt |-> 1,
                sent |-> <<Request(config)>>, errors |-> <<>>, waits |-> <<>>,
                result |-> "none"]
    /\ UNCHANGED <<log, outsideTransport>>

\* The attempt in flight is answered with a 2xx status: the response is returned.
AttemptSucceeds(status) ==
    /\ call.pc = "inflight"
    /\ call' = [call EXCEPT !.pc = "returned", !.result = [status |-> status]]
    /\ UNCHANGED <<log, outsideTransport>>

\* A catch block that rethrows the error of the first attempt.
AttemptFailsThrowsFirst(error) ==
    /\ call.pc = "inflight"
    /\ IF call.attempt >= maxRetries
       THEN /\ call' = [call EXCEPT !.pc = "thrown",
                                    !.result = Append(call.errors, error)[1],
                                    !.errors = Append(@, error)]
            /\ log' = log
       ELSE /\ call' = [call EXCEPT !.pc = "waiting",
                                    !.errors = Append(@, error),
                                    !.waits = Append(@, RetryDelay(call.attempt))]
            /\ log' = appendLog(log, <<"Attempt failed, retrying", call.attempt,
                                       RetryDelay(call.attempt) \div 1000>>, "warning")
    /\ UNCHANGED outsideTransport

\* The attempt in flight fails: the error is thrown after the last attempt,
\* else a warning is logged and the wait starts.
AttemptFails(error) ==
    /\ call.pc = "inflight"
    /\ IF call.attempt >= maxRetries
       THEN /\ call' = [call EXCEPT !.pc = "thrown", !.result = error,
                                    !.errors = Append(@, error)]
            /\ log' = log
       ELSE /\ call' = [call EXCEPT !.pc = "waiting",
                                    !.errors = Append(@, error),
                                    !.waits = Append(@, RetryDelay(call.attempt))]
            /\ log' = appendLog(log, <<"Attempt failed, retrying", call.attempt,
                                       RetryDelay(call.attempt) \div 1000>>, "warning")
    /\ UNCHANGED outsideTransport

\* The wait is over: apiRequest(config, attempt + 1).
RetryTimerFires ==
    /\ call.pc = "waiting"
    /\ call' = [call EXCEPT !.pc = "inflight", !.attempt = @ + 1,
                            !.sent = Append(@, Request(call.config))]
    /\ UNCHANGED <<log, outsideTransport>>

\* One call of apiRequest, from a fresh app.
InitTransport ==
    /\ users = <<>>
    /\ failedUsers = <<>>
    /\ importStats = [success |-> 0, failed |-> 0]
    /\ processing = FALSE
    /\ progress = 0
    /\ batchSize = DefaultBatchSize
    /\ connectionStatus = "checking..."
    /\ shouldStop = FALSE
    /\ log = <<>>
    /\ run = NoRun
    /\ chunk = <<>>
    /\ call = NoCall
    /\ OthersIdle

NextTransport ==
    \/ \E config \in Configs : CallApi(config)
    \/ \E status \in OkStatuses : AttemptSucceeds(status)
    \/ \E error \in Errors : AttemptFails(error)
    \/ RetryTimerFires

SpecTransport == InitTransport /\ [][NextTransport]_vars

\* ---------------------------------------------------- claims: transport

\* C10: apiRequest makes at most 3 attempts, all of the same request; after
\* failed attempt k (k = 1, 2) it logs one warning and waits 1000 * 2^(k-1) ms
\* before attempt k + 1; it returns the response of the first attempt that
\* succeeds and sends nothing after it.
C10_BoundedBackoff ==
    call.pc # "idle" =>
        /\ Len(call.sent) = call.attempt
        /\ call.attempt <= 3
        /\ \A k \in 1..Len(call.sent) : call.sent[k] = call.sent[1]
        /\ Len(call.waits) <= 2
        /\ \A k \in 1..Len(call.waits) :
              call.waits[k] = (IF k = 1 THEN 1000 ELSE 2000)
        /\ Len(log) = Len(call.waits)
        /\ \A k \in 1..Len(log) :
              log[k] = Entry(<<"Attempt failed, retrying", k, IF k = 1 THEN 1 ELSE 2>>,
                             "warning")
        /\ call.pc = "inflight" => Len(call.errors) = call.attempt - 1
        /\ call.pc = "waiting" =>
              Len(call.errors) = call.attempt /\ Len(call.waits) = call.attempt
        /\ call.pc = "returned" =>
              /\ Len(call.errors) = call.attempt - 1
              /\ Len(call.waits) = call.attempt - 1
              /\ call.result.status \in OkStatuses

\* A call failed on attempts 1 and 2 and returned the response of attempt 3.
C10_Witness ==
    /\ call.pc = "returned"
    /\ call.attempt = 3
    /\ call.waits = <<1000, 2000>>

\* C11: when all 3 attempts of a request fail, apiRequest throws the error of
\* the third attempt with its status and body as received; the error of an
\* earlier attempt is never thrown in its place, and a third failure never
\* ends in a returned response.
C11_FinalErrorSurfaced ==
    call.pc # "idle" =>
        /\ call.pc = "thrown" =>
              /\ call.attempt = 3
              /\ Len(call.errors) = 3
              /\ call.result = call.errors[3]
              /\ call.result \in Errors
        /\ Len(call.errors) = 3 => call.pc = "thrown"
        /\ call.pc = "returned" =>
              /\ call.result \notin Errors
              /\ Len(call.errors) < call.attempt

\* Three attempts failed with three different errors and the call threw.
C11_Witness ==
    /\ call.pc = "thrown"
    /\ call.errors[1] # call.errors[3]
    /\ call.errors[2] # call.errors[3]
    /\ call.errors[3].status = 500

\* ------------------------------------------------------ password pipeline

\* The variables no step of the password pipeline changes.
outsidePassword ==
    <<importVars, processing, connectionStatus, transportVars, exVars, delVars,
      monVars, viewVars, serverVars>>

\* A record of the password file.
PasswordUser(name) == [username |-> name, newPassword |-> "secret", userRoles |-> 1]

PasswordLists == UNION {[1..n -> {PasswordUser(k) : k \in 1..n}] : n \in 1..MaxUsers}

\* The final outcomes of the request the password run awaits: of the lookup by
\* username, of the fetch by id, and of the PUT (a 2xx status, or an error).
PasswordOutcomes(pc) ==
    CASE pc = "lookup" -> {"found", "none", "error"}
      [] pc = "fetch" -> {"ok", "error"}
      [] pc = "put" -> {"200", "201", "204", "error"}
      [] OTHER -> {}

\* A test that takes every 2xx status.
PutAcceptedAny2xx(status) == status \in {"200", "201", "204"}

\* [200, 204].includes(updateResponse.status)
PutAccepted(status) == status \in {"200", "204"}

\* The value given to setProgress after record i (0-based).
PasswordProgress(i, n) == MathRound((i + 1) * 100, n)

\* A Process Updates button that a run of the pipeline does not disable.
ProcessUpdatesDisabledNoBusy ==
    Len(passwordUsers) = 0 \/ connectionStatus # "connected"

ProcessUpdatesDisabled ==
    processingPasswords \/ Len(passwordUsers) = 0 \/ connectionStatus # "connected"

\* The iteration for record i (0-based) begins: the lookup by username is sent.
PasswordIteration(p, i) ==
    [p EXCEPT !.i = i, !.pc = "lookup", !.sent = <<"lookup">>, !.answers = <<>>]

\* The record at p.i was handled, with the line logged for it as the last of
\* l: the next iteration of the loop of processPasswordUpdates with locals p,
\* or the code after the loop.
PasswordLoop(p, l, value) ==
    LET done == Append(p.done, [username |-> p.passwordUsers[p.i + 1].username,
                                sent |-> p.sent, answers |-> p.answers,
                                successCount |-> p.successCount,
                                errorCount |-> p.errorCount, line |-> l[Len(l)]])
    IN  IF p.i + 1 < Len(p.passwordUsers)
        THEN /\ pw' = PasswordIteration([p EXCEPT !.done = done], p.i + 1)
             /\ log' = l
             /\ progress' = value
             /\ processingPasswords' = TRUE
        ELSE /\ pw' = [pc |-> "idle", done |-> done]
             /\ log' = appendLog(l, <<"Password update completed", p.successCount,
                                      p.errorCount>>,
                                 IF p.errorCount > 0 THEN "warning" ELSE "success")
             /\ processingPasswords' = FALSE
             /\ progress' = 0

\* processPasswordUpdates up to its first await.
processPasswordUpdates ==
    IF Len(passwordUsers) = 0
    THEN /\ log' = appendLog(log, <<"No users imported for password update">>, "warning")
         /\ UNCHANGED <<progress, pwVars, outsidePassword>>
    ELSE /\ processingPasswords' = TRUE
         /\ pw' = PasswordIteration([pc |-> "lookup", i |-> 0, successCount |-> 0,
                                     errorCount |-> 0, passwordUsers |-> passwordUsers,
                                     sent |-> <<>>, answers |-> <<>>, done |-> <<>>], 0)
         /\ log' = appendLog(log, <<"Starting password update", Len(passwordUsers)>>,
                             "info")
         /\ UNCHANGED <<progress, passwordUsers, outsidePassword>>

\* Process Updates.
ClickProcessUpdates ==
    /\ Len(log) < MaxLog
    /\ IF ProcessUpdatesDisabled THEN UNCHANGED vars ELSE processPasswordUpdates

\* A catch that logs the error and does not count it.
PasswordCatchUncounted(p, l) ==
    PasswordLoop(p,
                 appendLog(l, <<"Error updating", p.passwordUsers[p.i + 1].username>>,
                           "error"),
                 PasswordProgress(p.i, Len(p.passwordUsers)))

\* The catch of the loop body, then setProgress and the next iteration.
PasswordCatch(p, l) ==
    PasswordLoop([p EXCEPT !.errorCount = @ + 1],
                 appendLog(l, <<"Error updating", p.passwordUsers[p.i + 1].username>>,
                           "error"),
                 PasswordProgress(p.i, Len(p.passwordUsers)))

\* A lookup without user that is sent again.
NotFoundRepeatsLookup(p, l) ==
    /\ pw' = [p EXCEPT !.sent = Append(@, "lookup")]
    /\ log' = l
    /\ UNCHANGED <<progress, processingPasswords>>

\* The lookup returned no user: the record is counted and logged, and continue
\* skips the rest of the body, setProgress included.
NotFound(p, l) ==
    PasswordLoop([p EXCEPT !.errorCount = @ + 1],
                 appendLog(l, <<"User not found", p.passwordUsers[p.i + 1].username>>,
                           "warning"),
                 progress)

\* The request the password run awaits is answered.
PasswordRespond(outcome) ==
    /\ pw.pc # "idle"
    /\ outcome \in PasswordOutcomes(pw.pc)
    /\ UNCHANGED <<passwordUsers, outsidePassword>>
    /\ LET p == [pw EXCEPT !.answers = Append(@, outcome)]
           name == pw.passwordUsers[pw.i + 1].username
           n == Len(pw.passwordUsers)
       IN  CASE outcome = "error" -> PasswordCatch(p, log)
             [] pw.pc = "lookup" /\ outcome = "none" -> NotFound(p, log)
             [] pw.pc = "lookup" /\ outcome = "found" ->
                    /\ pw' = [p EXCEPT !.pc = "fetch", !.sent = Append(@, "fetch")]
                    /\ UNCHANGED <<log, progress, processingPasswords>>
             [] pw.pc = "fetch" /\ outcome = "ok" ->
                    /\ pw' = [p EXCEPT !.pc = "put", !.sent = Append(@, "put")]
                    /\ UNCHANGED <<log, progress, processingPasswords>>
             [] pw.pc = "put" /\ PutAccepted(outcome) ->
                    PasswordLoop([p EXCEPT !.successCount = @ + 1],
                                 appendLog(log, <<"Password updated", name>>, "success"),
                                 PasswordProgress(pw.i, n))
             [] OTHER ->
                    PasswordLoop([p EXCEPT !.errorCount = @ + 1],
                                 appendLog(log, <<"Failed to update user", name, outcome>>,
                                           "error"),
                                 PasswordProgress(pw.i, n))

\* The app connected with a password file loaded and the log cleared.
InitPassword ==
    /\ users = <<>>
    /\ failedUsers = <<>>
    /\ importStats = [success |-> 0, failed |-> 0]
    /\ processing = FALSE
    /\ progress = 0
    /\ batchSize = DefaultBatchSize
    /\ connectionStatus = "connected"
    /\ shouldStop = FALSE
    /\ log = appendLog(<<>>, <<"Cleared activity logs">>, "success")
    /\ run = NoRun
    /\ chunk = <<>>
    /\ call = NoCall
    /\ passwordUsers \in PasswordLists
    /\ processingPasswords = FALSE
    /\ pw = NoPassword
    /\ exportProgress = Zero
    /\ exportedUsers = <<>>
    /\ ex = NoExport
    /\ selectedUsers = <<>>
    /\ del = NoDeletion
    /\ monitor = <<Effect(connectionStatus, 0)>>
    /\ activeTab = "import"
    /\ isFilterOpen = FALSE
    /\ serverUsers = {exportedUsers[k].id : k \in 1..Len(exportedUsers)}

NextPassword ==
    \/ ClickProcessUpdates
    \/ \E outcome \in {"found", "none", "ok", "error", "200", "201", "204"} :
          PasswordRespond(outcome)

SpecPassword == InitPassword /\ [][NextPassword]_vars

\* ----------------------------------------------------- claims: password

\* The records the present or last password run has handled.
Handled == pw.done

\* Record k was counted a success; a failure.
CountedSuccess(k) ==
    /\ Handled[k].successCount = (IF k = 1 THEN 0 ELSE Handled[k - 1].successCount) + 1
    /\ Handled[k].errorCount = (IF k = 1 THEN 0 ELSE Handled[k - 1].errorCount)

CountedFailure(k) ==
    /\ Handled[k].successCount = (IF k = 1 THEN 0 ELSE Handled[k - 1].successCount)
    /\ Handled[k].errorCount = (IF k = 1 THEN 0 ELSE Handled[k - 1].errorCount) + 1

\* C21: a record of the password pipeline counts as a success if and only if
\* its PUT was answered with status 200 or 204; any other outcome (another 2xx
\* status, an error of the lookup, of the fetch or of the PUT) counts as a
\* failure of the record.
C21_PasswordSuccessStatus ==
    \A k \in 1..Len(Handled) :
        LET last == Handled[k].answers[Len(Handled[k].answers)]
            put == Handled[k].sent = <<"lookup", "fetch", "put">>
        IN  /\ CountedSuccess(k) \/ CountedFailure(k)
            /\ CountedSuccess(k) <=> (put /\ last \in {"200", "204"})
            /\ CountedSuccess(k) => Handled[k].line.type = "success"
            /\ CountedFailure(k) => Handled[k].line.type \in {"error", "warning"}

\* A PUT answered 201 was counted a failure and one answered 204 a success.
C21_Witness ==
    /\ \E k \in 1..Len(Handled) :
          Handled[k].answers = <<"found", "ok", "201">> /\ CountedFailure(k)
    /\ \E k \in 1..Len(Handled) :
          Handled[k].answers = <<"found", "ok", "204">> /\ CountedSuccess(k)

\* C22: when the lookup of a record returns no user, the record is counted a
\* failure and logged as not found, no fetch and no PUT is sent for it, the
\* lookup is not sent again, and the run goes on with the next record.
C22_NotFoundSkipsRecord ==
    /\ pw.pc # "idle" =>
          /\ \A j \in 1..Len(pw.answers) : pw.answers[j] # "none"
          /\ Len(Handled) = pw.i
    /\ \A k \in 1..Len(Handled) :
          (\E j \in 1..Len(Handled[k].answers) : Handled[k].answers[j] = "none") =>
              /\ Handled[k].sent = <<"lookup">>
              /\ Handled[k].answers = <<"none">>
              /\ CountedFailure(k)
              /\ Text(Handled[k].line) = "User not found"
              /\ Handled[k].line.type = "warning"
    /\ (pw.pc = "idle" /\ Len(Handled) > 0) => Len(Handled) = Len(passwordUsers)

\* The first record was not found and the second was then updated.
C22_Witness ==
    /\ Len(Handled) = 2
    /\ Handled[1].answers = <<"none">>
    /\ Handled[2].answers = <<"found", "ok", "200">>

\* C30: once record i of N has been handled, whatever its outcome, progress
\* is round(i / N * 100).
C30_PasswordProgressPerRecord ==
    (pw.pc # "idle" /\ pw.i > 0) =>
        progress = MathRound(pw.i * 100, Len(pw.passwordUsers))

\* -------------------------------------------------------- export pipeline

\* The variables no step of the export pipeline changes.
outsideExport ==
    <<importVars, progress, connectionStatus, transportVars, pwVars, delVars, monVars,
      viewVars, serverVars>>

\* An organisation unit of a served user: the length of its ancestors array
\* and its id.
OrgUnit(ancestors, id) == [ancestors |-> ancestors, id |-> id]

\* A served user: its id (0: none) and its organisation units.
ServedUser(id, ous) == [id |-> id, organisationUnits |-> ous]

ServedUsers ==
    {ServedUser(0, <<OrgUnit(4, 1)>>), ServedUser(1, <<OrgUnit(4, 1)>>),
     ServedUser(1, <<OrgUnit(3, 2)>>),
     ServedUser(2, <<OrgUnit(3, 1), OrgUnit(4, 2), OrgUnit(5, 3)>>)}

\* The answers to a page request: an error after the transport's attempts, a
\* 2xx status other than 200, or a page with its users and its pager
\* (totalPages 0: none given; nextPage: a next url is given).
PageAnswers ==
    {[kind |-> "error"], [kind |-> "status"]}
    \cup [kind : {"page"},
          users : UNION {[1..n -> ServedUsers] : n \in 0..2},
          totalPages : 0..3,
          nextPage : BOOLEAN]

\* A rule that takes every unit at or below the required depth.
OnPathOrDeeper(ou) == ou.ancestors >= 4

\* The ancestors array has the required length.
OnPath(ou) == ou.ancestors = 4

\* The row of a served user: the path of a unit is the names of its ancestors
\* then its own (its number of segments is kept), joined unit by unit.
Project(user) ==
    LET units == SelectSeq(user.organisationUnits, OnPath)
    IN  [id |-> user.id,
         OrgunitPath |-> [k \in 1..Len(units) |-> units[k].ancestors + 1],
         OrgunitUID |-> [k \in 1..Len(units) |-> units[k].id]]

\* A loop that skips only the users without id.
RECURSIVE AddUsersNoDedup(_, _)
AddUsersNoDedup(e, served) ==
    IF served = <<>> THEN e
    ELSE LET user == Head(served)
         IN  IF user.id = 0
             THEN AddUsersNoDedup(e, Tail(served))
             ELSE AddUsersNoDedup([e EXCEPT !.seenIds = @ \cup {user.id},
                                            !.usersList = Append(@, Project(user))],
                                  Tail(served))

\* The loop over the users of a page: a user without id or with an id already
\* seen is skipped, else its id is marked and its row appended.
RECURSIVE AddUsers(_, _)
AddUsers(e, served) ==
    IF served = <<>> THEN e
    ELSE LET user == Head(served)
         IN  IF user.id = 0 \/ user.id \in e.seenIds
             THEN AddUsers(e, Tail(served))
             ELSE AddUsers([e EXCEPT !.seenIds = @ \cup {user.id},
                                     !.usersList = Append(@, Project(user))],
                           Tail(served))

\* The users of a page that open an id: those with an id that neither firsts
\* nor an earlier user of the page has.
Firsts(firsts, served) ==
    LET opens(k) ==
            /\ served[k].id # 0
            /\ \A j \in 1..Len(firsts) : firsts[j].id # served[k].id
            /\ \A j \in 1..(k - 1) : served[j].id # served[k].id
        ks == {k \in 1..Len(served) : opens(k)}
        RECURSIVE InOrderOf(_, _)
        InOrderOf(k, acc) ==
            IF k > Len(served) THEN acc
            ELSE InOrderOf(k + 1, IF k \in ks THEN Append(acc, served[k]) ELSE acc)
    IN  InOrderOf(1, firsts)

\* What the run was given, after a page: the history fields of the record.
Served(e, answer) ==
    LET firsts == Firsts(e.firsts, answer.users)
        withId == Cardinality({k \in 1..Len(answer.users) : answer.users[k].id # 0})
    IN  [e EXCEPT !.firsts = firsts,
                  !.dups = @ + withId - (Len(firsts) - Len(e.firsts)),
                  !.totalPages = answer.totalPages]

\* A progress that is not clamped.
ExportProgressNoClamp(pageCount, totalPages) ==
    Ratio(pageCount * 100, IF totalPages = 0 THEN 1 ELSE totalPages)

\* Math.min((pageCount / totalPages) * 100, 100), with totalPages || 1.
ExportProgressAt(pageCount, totalPages) ==
    LET total == IF totalPages = 0 THEN 1 ELSE totalPages
    IN  IF pageCount >= total THEN Ratio(100, 1) ELSE Ratio(pageCount * 100, total)

\* A completion that adds the rows of the run to the rows held.
ExportCompleteMerging(e, l, ended) ==
    /\ exportedUsers' = exportedUsers \o e.usersList
    /\ log' = appendLog(l, <<"Export complete", Cardinality(e.seenIds)>>, "success")
    /\ processing' = FALSE
    /\ exportProgress' = Zero
    /\ ex' = [e EXCEPT !.pc = "idle", !.ended = ended]

\* The code after the loop, then the finally block; ended tells how the loop
\* was left.
ExportComplete(e, l, ended) ==
    /\ exportedUsers' = e.usersList
    /\ log' = appendLog(l, <<"Export complete", Cardinality(e.seenIds)>>, "success")
    /\ processing' = FALSE
    /\ exportProgress' = Zero
    /\ ex' = [e EXCEPT !.pc = "idle", !.ended = ended]

\* Fetch Users: exportUsersToCSV up to its first await.
ClickFetchUsers ==
    /\ Len(log) < MaxLog
    /\ IF processing THEN UNCHANGED vars
       ELSE /\ log' = appendLog(log, <<"Starting DHIS2 user export">>, "info")
            /\ processing' = TRUE
            /\ exportProgress' = Zero
            /\ ex' = [NoExport EXCEPT !.pc = "page", !.nextUrl = 1,
                                      !.before = exportedUsers]
            /\ UNCHANGED <<exportedUsers, outsideExport>>

\* The page request in flight is answered.
ExportRespond(answer) ==
    /\ ex.pc = "page"
    /\ answer \in PageAnswers
    /\ answer.kind = "page" /\ answer.nextPage => ex.pageCount + 1 < MaxPages
    /\ UNCHANGED outsideExport
    /\ CASE answer.kind = "error" ->
                /\ log' = appendLog(log, <<"Export failed">>, "error")
                /\ processing' = FALSE
                /\ exportProgress' = Zero
                /\ ex' = [ex EXCEPT !.pc = "idle", !.ended = "error"]
                /\ UNCHANGED exportedUsers
         [] answer.kind = "status" -> ExportComplete(ex, log, "status")
         [] OTHER ->
                LET e == AddUsers(Served([ex EXCEPT !.pageCount = @ + 1,
                                                    !.nextUrl = IF answer.nextPage
                                                                THEN @ + 1 ELSE 0],
                                         answer),
                                  answer.users)
                    l == appendLog(log, <<"Page fetched", Cardinality(e.seenIds)>>,
                                   "success")
                IN  IF answer.nextPage
                    THEN /\ ex' = e
                         /\ log' = l
                         /\ exportProgress' =
                               ExportProgressAt(e.pageCount, answer.totalPages)
                         /\ UNCHANGED <<processing, exportedUsers>>
                    ELSE ExportComplete(e, l, "lastPage")

\* The app connected with nothing exported and the log cleared.
InitExport ==
    /\ users = <<>>
    /\ failedUsers = <<>>
    /\ importStats = [success |-> 0, failed |-> 0]
    /\ processing = FALSE
    /\ progress = 0
    /\ batchSize = DefaultBatchSize
    /\ connectionStatus = "connected"
    /\ shouldStop = FALSE
    /\ log = appendLog(<<>>, <<"Cleared activity logs">>, "success")
    /\ run = NoRun
    /\ chunk = <<>>
    /\ call = NoCall
    /\ OthersIdle

NextExport ==
    \/ ClickFetchUsers
    \/ \E answer \in PageAnswers : ExportRespond(answer)

SpecExport == InitExport /\ [][NextExport]_vars

\* -------------------------------------------------------- export cursor

\* The answers of a server whose pager refers to any of its pages: an error,
\* a status other than 200, or a page without users whose nextPage is the
\* page the next url refers to (0: none).
CursorAnswers ==
    {[kind |-> "error"], [kind |-> "status"]}
    \cup [kind : {"page"}, users : {<<>>}, totalPages : {MaxPages},
          nextPage : 0..MaxPages]

\* The page request in flight is answered by that server. pageCount is counted
\* up to MaxPages only: totalPages is not larger, so that the progress of a
\* later page is 100 either way.
ExportCursorRespond(answer) ==
    /\ ex.pc = "page"
    /\ answer \in CursorAnswers
    /\ UNCHANGED outsideExport
    /\ CASE answer.kind = "error" ->
                /\ log' = appendLog(log, <<"Export failed">>, "error")
                /\ processing' = FALSE
                /\ exportProgress' = Zero
                /\ ex' = [ex EXCEPT !.pc = "idle", !.ended = "error"]
                /\ UNCHANGED exportedUsers
         [] answer.kind = "status" -> ExportComplete(ex, log, "status")
         [] OTHER ->
                LET e == AddUsers(Served([ex EXCEPT !.pageCount = Min(@ + 1, MaxPages),
                                                    !.nextUrl = answer.nextPage],
                                         answer),
                                  answer.users)
                    l == appendLog(log, <<"Page fetched", Cardinality(e.seenIds)>>,
                                   "success")
                IN  IF e.nextUrl # 0
                    THEN /\ ex' = e
                         /\ log' = l
                         /\ exportProgress' =
                               ExportProgressAt(e.pageCount, answer.totalPages)
                         /\ UNCHANGED <<processing, exportedUsers>>
                    ELSE ExportComplete(e, l, "lastPage")

NextCursor ==
    \/ ClickFetchUsers
    \/ \E answer \in CursorAnswers : ExportCursorRespond(answer)

\* Every page request is answered at last.
SpecCursor ==
    /\ InitExport
    /\ [][NextCursor]_vars
    /\ WF_vars(\E answer \in CursorAnswers : ExportCursorRespond(answer))

\* C39: every export run ends, whatever pages the nextPage of the server
\* refers to, a page fetched before included; and after the run, however it
\* ended, processing is false and exportProgress is 0.
C39_ExportTerminates ==
    /\ [](ex.pc = "idle" => (~processing /\ exportProgress = Zero))
    /\ ex.pc = "page" ~> ex.pc = "idle"

\* ------------------------------------------------------- claims: export

\* A run of the export has fetched at least one page, or has ended.
Exporting == ex.pc = "page" \/ ex.ended # "none"

\* The loop of the run was left and the code after it ran.
ExportCompleted == ex.pc = "idle" /\ ex.ended \in {"lastPage", "status"}

\* C16: the rows of an export hold each user id at most once, the row of an
\* id is that of the first user served with it, and the seen-set has as many
\* ids as rows were emitted.
C16_ExportDedup ==
    Exporting =>
        /\ \A j, k \in 1..Len(ex.usersList) :
              ex.usersList[j].id = ex.usersList[k].id => j = k
        /\ Cardinality(ex.seenIds) = Len(ex.usersList)
        /\ Len(ex.usersList) = Len(ex.firsts)
        /\ \A k \in 1..Len(ex.usersList) :
              /\ ex.usersList[k].id = ex.firsts[k].id
              /\ ex.usersList[k].OrgunitUID =
                    [j \in 1..Len(SelectSeq(ex.firsts[k].organisationUnits,
                                            LAMBDA ou : ou.ancestors = 4)) |->
                        SelectSeq(ex.firsts[k].organisationUnits,
                                  LAMBDA ou : ou.ancestors = 4)[j].id]
        /\ ExportCompleted => exportedUsers = ex.usersList

\* An id was served again with other units, on a later page, and the export
\* completed with one row for it, that of the first.
C16_Witness ==
    /\ ExportCompleted
    /\ ex.pageCount >= 2
    /\ ex.dups >= 1
    /\ ex.firsts = <<ServedUser(1, <<OrgUnit(3, 2)>>)>>
    /\ Len(exportedUsers) = 1

\* C17: when the fetch of an export page is not a definitive success (the
\* request fails, or the status is not 200) the run is aborted: it is not
\* reported complete and none of its rows is stored as the exported set.
C17_ExportAborts ==
    (ex.pc = "idle" /\ ex.ended \in {"error", "status"}) =>
        /\ Text(log[Len(log)]) # "Export complete"
        /\ exportedUsers = ex.before

\* C18: a unit contributes to OrgunitPath and OrgunitUID exactly when it has 4
\* ancestors, with a path of 5 segments; a unit with another number of
\* ancestors contributes nothing, and the row of its user is still emitted.
C18_OrgUnitPathRule ==
    Exporting =>
        /\ Len(ex.usersList) = Len(ex.firsts)
        /\ \A k \in 1..Len(ex.usersList) :
              LET units == ex.firsts[k].organisationUnits
                  four == {j \in 1..Len(units) : units[j].ancestors = 4}
                  row == ex.usersList[k]
              IN  /\ Len(row.OrgunitPath) = Cardinality(four)
                  /\ Len(row.OrgunitUID) = Cardinality(four)
                  /\ \A j \in 1..Len(row.OrgunitPath) : row.OrgunitPath[j] = 5
                  /\ \A j \in 1..Len(row.OrgunitUID) :
                        \E i \in four : units[i].id = row.OrgunitUID[j]

\* A user with units of 3, 4 and 5 ancestors has a row with the one path of
\* the second, and a user with a unit of 3 ancestors has a row without path.
C18_Witness ==
    /\ Exporting
    /\ \E k \in 1..Len(ex.usersList) :
          /\ ex.firsts[k] = ServedUser(2, <<OrgUnit(3, 1), OrgUnit(4, 2), OrgUnit(5, 3)>>)
          /\ ex.usersList[k].OrgunitPath = <<5>>
          /\ ex.usersList[k].OrgunitUID = <<2>>
    /\ \E k \in 1..Len(ex.usersList) :
          /\ ex.firsts[k] = ServedUser(1, <<OrgUnit(3, 2)>>)
          /\ ex.usersList[k].OrgunitPath = <<>>

\* C19: after each page the export progress is min(pageCount / totalPages *
\* 100, 100), with totalPages taken as 1 when the pager gives none, and so is
\* never above 100.
C19_ExportProgressClamped ==
    /\ exportProgress.n <= 100 * exportProgress.d
    /\ (ex.pc = "page" /\ ex.pageCount > 0) =>
          LET total == IF ex.totalPages = 0 THEN 1 ELSE ex.totalPages
          IN  IF ex.pageCount <= total
              THEN exportProgress.n * total = ex.pageCount * 100 * exportProgress.d
              ELSE exportProgress.n = 100 * exportProgress.d

\* The second page of a run came with a pager of one page in all.
C19_Witness ==
    /\ ex.pc = "page"
    /\ ex.pageCount = 2
    /\ ex.totalPages = 1
    /\ exportProgress = Ratio(100, 1)

\* C20: when an export run completes, exportedUsers is the list of the rows
\* projected during that run, in page order: no row of the previous export
\* stays or is merged.
C20_ExportReplaces ==
    ExportCompleted =>
        /\ exportedUsers = ex.usersList
        /\ Len(exportedUsers) = Len(ex.firsts)
        /\ \A k \in 1..Len(exportedUsers) : exportedUsers[k].id = ex.firsts[k].id

\* An export completed after another had left rows, and a row of the first is
\* gone.
C20_Witness ==
    /\ ExportCompleted
    /\ ex.ended = "lastPage"
    /\ ex.before # <<>>
    /\ exportedUsers # <<>>
    /\ \E k \in 1..Len(ex.before) :
          \A j \in 1..Len(exportedUsers) : exportedUsers[j].id # ex.before[k].id

\* ----------------------------------------------------- claims: progress

\* a <= b for ratios.
Leq(a, b) == a.n * b.d <= b.n * a.d

\* C9: within a run of the import, password or export pipeline, a progress
\* value written is never below the value written before it in that run.
C9_ProgressMonotone ==
    [][/\ (Running /\ run'.pc = "chunk") => progress' >= progress
       /\ (pw.pc # "idle" /\ pw'.pc # "idle") => progress' >= progress
       /\ (ex.pc = "page" /\ ex'.pc = "page") => Leq(exportProgress, exportProgress')]_vars

\* ------------------------------------------------------ deletion pipeline

\* The variables no step of the deletion pipeline changes.
outsideDeletion ==
    <<importVars, progress, connectionStatus, transportVars, pwVars, exportProgress,
      ex, monVars, viewVars, serverVars>>

\* The role deleteUser leaves to the user.
MinimalRole == "oO6BBApzmHZ"

\* The wait of deleteUser between its PUT and its DELETE.
SettleDelay == 1000

\* The full record the server holds of the user.
FullRecord(id) ==
    [id |-> id, disabled |-> FALSE, userRoles |-> <<"role1", "role2">>,
     organisationUnits |-> <<"ou1">>, dataViewOrganisationUnits |-> <<"ou1">>,
     teiSearchOrganisationUnits |-> <<"ou2">>, userGroups |-> <<"group1">>]

\* A stripping that leaves the user in its groups.
StripKeepsGroups(user) ==
    [user EXCEPT !.disabled = TRUE, !.userRoles = <<MinimalRole>>,
                 !.organisationUnits = <<>>, !.dataViewOrganisationUnits = <<>>,
                 !.teiSearchOrganisationUnits = <<>>]

\* The fetched record as deleteUser sends it back.
Strip(user) ==
    [user EXCEPT !.disabled = TRUE, !.userRoles = <<MinimalRole>>,
                 !.organisationUnits = <<>>, !.dataViewOrganisationUnits = <<>>,
                 !.teiSearchOrganisationUnits = <<>>, !.userGroups = <<>>]

\* apiRequest(config) as deleteUser calls it for the user id: the request
\* that reaches axios, and its data ("none": no body).
DeletionRequest(method, id, timeout, data) ==
    [request |-> Request([method |-> method, absolute |-> FALSE, timeout |-> timeout]),
     id |-> id, data |-> data]

\* The final outcomes of the request the deletion run awaits: ok, or the error
\* thrown after the transport's attempts (a client timeout, a 404, another).
DeletionOutcomes(pc) ==
    IF pc \in {"get", "put", "delete", "verify"}
    THEN {"ok", "timeout", "404", "error"} ELSE {}

\* error.code === 'ECONNABORTED'.
IsTimeout(outcome) == outcome = "timeout"

\* A re-fetch that confirms nothing.
VerifiedNever(outcome) == FALSE

\* verifyError.response?.status === 404.
Verified(outcome) == outcome = "404"

DeleteSelectedDisabled ==
    processing \/ Len(selectedUsers) = 0 \/ connectionStatus # "connected"

\* The row is one of the rows su.
IsSelected(row, su) == \E k \in 1..Len(su) : su[k].id = row.id

\* toggleUserSelection(user).
ToggleUserSelection(row) ==
    /\ \E k \in 1..Len(exportedUsers) : exportedUsers[k] = row
    /\ selectedUsers' =
          IF IsSelected(row, selectedUsers)
          THEN SelectSeq(selectedUsers, LAMBDA u : u.id # row.id)
          ELSE Append(selectedUsers, row)
    /\ UNCHANGED <<del, processing, log, exportedUsers, outsideDeletion>>

\* deleteUser is called for the user at index idx: its GET is sent.
CallDeleteUser(d, idx) ==
    [d EXCEPT !.idx = idx, !.pc = "get", !.answers = <<>>,
              !.sent = <<DeletionRequest("get", d.selectedUsers[idx].id, 0, "none")>>]

\* deleteUser returned for the user at d.idx: the loop of deleteSelectedUsers
\* goes on with the next user, or the code after the loop runs.
DeletionLoop(d, success, l) ==
    LET count == d.successCount + (IF success THEN 1 ELSE 0)
        n == Len(d.selectedUsers)
        done == Append(d.done, [id |-> d.selectedUsers[d.idx].id, sent |-> d.sent,
                                answers |-> d.answers, success |-> success])
    IN  IF d.idx < n
        THEN /\ del' = CallDeleteUser([d EXCEPT !.successCount = count, !.done = done],
                                      d.idx + 1)
             /\ log' = l
             /\ UNCHANGED <<processing, exportedUsers, selectedUsers>>
        ELSE /\ del' = [pc |-> "idle", done |-> done]
             /\ exportedUsers' =
                   SelectSeq(exportedUsers, LAMBDA u : ~IsSelected(u, d.selectedUsers))
             /\ selectedUsers' = <<>>
             /\ log' = appendLog(l, <<"Deletion completed", count, n - count>>, "success")
             /\ processing' = FALSE

\* Delete Selected, confirmed: deleteSelectedUsers up to its first await.
ClickDeleteSelected ==
    /\ Len(log) < MaxLog
    /\ IF DeleteSelectedDisabled THEN UNCHANGED vars
       ELSE IF Len(selectedUsers) = 0
            THEN /\ log' = appendLog(log, <<"No users selected for deletion">>, "warning")
                 /\ UNCHANGED <<delVars, processing, exportedUsers, outsideDeletion>>
            ELSE /\ processing' = TRUE
                 /\ del' = CallDeleteUser([pc |-> "get", idx |-> 1, successCount |-> 0,
                                           selectedUsers |-> selectedUsers,
                                           sent |-> <<>>, answers |-> <<>>,
                                           done |-> <<>>], 1)
                 /\ UNCHANGED <<log, selectedUsers, exportedUsers, outsideDeletion>>

\* The settle delay of deleteUser is over: the DELETE is sent.
SettleTimerFires ==
    /\ del.pc = "settle"
    /\ del' = [del EXCEPT !.pc = "delete",
                          !.sent = Append(@, DeletionRequest("delete",
                                                             del.selectedUsers[del.idx].id,
                                                             DeleteTimeout, "none"))]
    /\ UNCHANGED <<log, selectedUsers, processing, exportedUsers, outsideDeletion>>

\* deleteUser resumes with the outcome of the request it awaits.
DeletionAnswered(outcome) ==
    /\ del.pc # "idle"
    /\ outcome \in DeletionOutcomes(del.pc)
    /\ LET id == del.selectedUsers[del.idx].id
           d == [del EXCEPT !.answers = Append(@, outcome)]
           failed(l) == appendLog(l, <<"Failed to delete", id>>, "error")
       IN  CASE del.pc = "verify" /\ outcome = "ok" ->
                    DeletionLoop(d, FALSE,
                                 appendLog(log, <<"User still exists after timeout", id>>,
                                           "warning"))
             [] del.pc = "verify" /\ Verified(outcome) ->
                    DeletionLoop(d, TRUE,
                                 appendLog(log, <<"Confirmed: User was deleted", id>>,
                                           "success"))
             [] del.pc = "verify" -> DeletionLoop(d, FALSE, failed(log))
             [] IsTimeout(outcome) ->
                    /\ del' = [d EXCEPT !.pc = "verify",
                                        !.sent = Append(@, DeletionRequest("get", id, 0,
                                                                           "none"))]
                    /\ log' = appendLog(log, <<"Timeout while deleting", id>>, "warning")
                    /\ UNCHANGED <<processing, exportedUsers, selectedUsers>>
             [] outcome \in {"404", "error"} -> DeletionLoop(d, FALSE, failed(log))
             [] del.pc = "get" ->
                    /\ del' = [d EXCEPT !.pc = "put",
                                        !.sent = Append(@, DeletionRequest(
                                                     "put", id, 0, Strip(FullRecord(id))))]
                    /\ UNCHANGED <<log, processing, exportedUsers, selectedUsers>>
             [] del.pc = "put" ->
                    /\ del' = [d EXCEPT !.pc = "settle"]
                    /\ UNCHANGED <<log, processing, exportedUsers, selectedUsers>>
             [] OTHER ->
                    DeletionLoop(d, TRUE, appendLog(log, <<"Deleted user", id>>, "success"))

\* The request the deletion run awaits is answered.
DeletionRespond(outcome) ==
    /\ DeletionAnswered(outcome)
    /\ UNCHANGED outsideDeletion

\* The app connected, with two rows exported and the log cleared.
InitDeletion ==
    /\ users = <<>>
    /\ failedUsers = <<>>
    /\ importStats = [success |-> 0, failed |-> 0]
    /\ processing = FALSE
    /\ progress = 0
    /\ batchSize = DefaultBatchSize
    /\ connectionStatus = "connected"
    /\ shouldStop = FALSE
    /\ log = appendLog(<<>>, <<"Cleared activity logs">>, "success")
    /\ run = NoRun
    /\ chunk = <<>>
    /\ call = NoCall
    /\ passwordUsers = <<>>
    /\ processingPasswords = FALSE
    /\ pw = NoPassword
    /\ exportProgress = Zero
    /\ exportedUsers = [k \in 1..MaxUsers |-> [id |-> k, OrgunitPath |-> <<>>,
                                               OrgunitUID |-> <<>>]]
    /\ ex = NoExport
    /\ selectedUsers = <<>>
    /\ del = NoDeletion
    /\ monitor = <<Effect(connectionStatus, 0)>>
    /\ activeTab = "import"
    /\ isFilterOpen = FALSE
    /\ serverUsers = {exportedUsers[k].id : k \in 1..Len(exportedUsers)}

NextDeletion ==
    \/ \E k \in 1..Len(exportedUsers) : ToggleUserSelection(exportedUsers[k])
    \/ ClickDeleteSelected
    \/ SettleTimerFires
    \/ \E outcome \in {"ok", "timeout", "404", "error"} : DeletionRespond(outcome)

SpecDeletion == InitDeletion /\ [][NextDeletion]_vars

\* ----------------------------------------------------- claims: deletion

\* The calls of deleteUser of the present or last run that returned.
Deleted == del.done

\* The methods of the requests a call of deleteUser sent.
Methods(sent) == [k \in 1..Len(sent) |-> sent[k].request.method]

\* C12: when the DELETE call ends in a client timeout and the re-fetch of the
\* user is answered 404, deleteUser reports success: it returns true, the
\* user is counted as deleted and no failure line is logged for it.
C12_TimeoutThen404IsSuccess ==
    /\ \A k \in 1..Len(Deleted) :
          (/\ Methods(Deleted[k].sent) = <<"get", "put", "delete", "get">>
           /\ Deleted[k].answers[3] = "timeout"
           /\ Deleted[k].answers[4] = "404") => Deleted[k].success
    /\ (del.pc = "idle" /\ Len(Deleted) > 0) =>
          /\ Text(log[Len(log)]) = "Deletion completed"
          /\ log[Len(log)].message[2] =
                Cardinality({j \in 1..Len(Deleted) : Deleted[j].success})

\* The DELETE of a user timed out, its re-fetch was answered 404, and the run
\* ended.
C12_Witness ==
    /\ del.pc = "idle"
    /\ \E k \in 1..Len(Deleted) :
          /\ Deleted[k].answers = <<"ok", "ok", "timeout", "404">>
          /\ Deleted[k].success

\* C13: deleteUser reports success only when its DELETE returned, or when its
\* DELETE timed out and the re-fetch was answered 404; a timeout or error of
\* the GET or of the PUT, and a re-fetch answered otherwise, are failures.
C13_SuccessOnlyAfterDelete ==
    \A k \in 1..Len(Deleted) :
        Deleted[k].success =>
            \/ Deleted[k].answers = <<"ok", "ok", "ok">>
            \/ Deleted[k].answers = <<"ok", "ok", "timeout", "404">>

\* The requests of a call of deleteUser: the first is the GET; a PUT is the
\* second, after the GET succeeded, and carries the stripped record; a DELETE
\* is the third, after the GET and the PUT succeeded; any other request is the
\* re-fetch after a timeout.
InOrder(id, sent, answers) ==
    /\ Len(sent) >= 1 => sent[1].request.method = "get"
    /\ \A k \in 1..Len(sent) :
          /\ sent[k].id = id
          /\ sent[k].request.method \in {"get", "put", "delete"}
          /\ sent[k].request.method = "put" =>
                /\ k = 2
                /\ answers[1] = "ok"
                /\ sent[k].data.disabled
                /\ sent[k].data.userRoles = <<"oO6BBApzmHZ">>
                /\ sent[k].data.organisationUnits = <<>>
                /\ sent[k].data.dataViewOrganisationUnits = <<>>
                /\ sent[k].data.teiSearchOrganisationUnits = <<>>
                /\ sent[k].data.userGroups = <<>>
          /\ sent[k].request.method = "delete" =>
                /\ k = 3
                /\ sent[2].request.method = "put"
                /\ answers[1] = "ok"
                /\ answers[2] = "ok"
          /\ (k > 1 /\ sent[k].request.method = "get") =>
                /\ k = Len(sent)
                /\ answers[k - 1] = "timeout"

C15_DeleteTimeout ==
    \A k \in 1..Len(Deleted) :
        \A j \in 1..Len(Deleted[k].sent) :
            Deleted[k].sent[j].request.timeout =
                (IF Deleted[k].sent[j].request.method = "delete" THEN 60000 ELSE 30000)

\* C35: when a deletion run ends, the rows removed from exportedUsers are
\* exactly those of the users whose deletion was reported a success; the row
\* of a selected user whose deletion failed stays.
C35_OnlyDeletedRowsRemoved ==
    [][(del.pc # "idle" /\ del'.pc = "idle") =>
          /\ \A k \in 1..Len(exportedUsers') :
                \E j \in 1..Len(exportedUsers) : exportedUsers[j] = exportedUsers'[k]
          /\ \A j \in 1..Len(exportedUsers) :
                (\E k \in 1..Len(exportedUsers') : exportedUsers'[k] = exportedUsers[j])
                <=> ~\E k \in 1..Len(del'.done) :
                        /\ del'.done[k].id = exportedUsers[j].id
                        /\ del'.done[k].success]_vars

\* ------------------------------------------ deleteUser over the transport

\* The method of the request deleteUser awaits, and the id of its user.
AwaitedMethod == del.sent[Len(del.sent)].request.method

AwaitedId == del.selectedUsers[del.idx].id

\* The number of the attempt of apiRequest that is in flight for that request.
Attempt == IF call.pc = "idle" THEN 1 ELSE call.attempt

\* What one attempt can meet: the server executes the request or not
\* (effect: a DELETE it executes removes the user), and the client gets a 2xx
\* response, no response within the timeout, a 404 or another error. A user
\* the server holds is never answered 404, and one it does not hold never 2xx.
Replies(method, held) ==
    IF held
    THEN {[effect |-> FALSE, result |-> "ok"] : m \in {method} \ {"delete"}}
         \cup {[effect |-> TRUE, result |-> r] : r \in {"ok", "timeout"},
                                                 m \in {method} \cap {"delete"}}
         \cup {[effect |-> FALSE, result |-> r] : r \in {"timeout", "error"}}
    ELSE {[effect |-> FALSE, result |-> r] : r \in {"404", "timeout", "error"}}

\* The attempt in flight is settled. A 2xx response is returned to deleteUser;
\* an error is thrown to it after the last attempt, and before that apiRequest
\* logs a warning and waits.
DeleteAttemptSettles(reply) ==
    /\ del.pc \in {"get", "put", "delete", "verify"}
    /\ call.pc # "waiting"
    /\ reply \in Replies(AwaitedMethod, AwaitedId \in serverUsers)
    /\ serverUsers' = IF reply.effect THEN serverUsers \ {AwaitedId} ELSE serverUsers
    /\ UNCHANGED <<importVars, progress, connectionStatus, pwVars, exportProgress, ex,
                   monVars, viewVars>>
    /\ IF reply.result = "ok" \/ Attempt >= maxRetries
       THEN /\ DeletionAnswered(reply.result)
            /\ call' = NoCall
       ELSE /\ call' = [pc |-> "waiting", attempt |-> Attempt]
            /\ log' = appendLog(log, <<"Attempt failed, retrying", Attempt,
                                       RetryDelay(Attempt) \div 1000>>, "warning")
            /\ UNCHANGED <<delVars, processing, exportedUsers>>

\* The wait of apiRequest is over: the request is sent again.
DeleteRetryTimerFires ==
    /\ del.pc \in {"get", "put", "delete", "verify"}
    /\ call.pc = "waiting"
    /\ call' = [pc |-> "inflight", attempt |-> call.attempt + 1]
    /\ UNCHANGED <<log, delVars, processing, exportedUsers, importVars, progress,
                   connectionStatus, pwVars, exportProgress, ex, monVars, viewVars,
                   serverVars>>

\* The app connected, the rows of an export all selected and their users on
\* the server, and the log cleared.
InitDeleteUser ==
    /\ users = <<>>
    /\ failedUsers = <<>>
    /\ importStats = [success |-> 0, failed |-> 0]
    /\ processing = FALSE
    /\ progress = 0
    /\ batchSize = DefaultBatchSize
    /\ connectionStatus = "connected"
    /\ shouldStop = FALSE
    /\ log = appendLog(<<>>, <<"Cleared activity logs">>, "success")
    /\ run = NoRun
    /\ chunk = <<>>
    /\ call = NoCall
    /\ passwordUsers = <<>>
    /\ processingPasswords = FALSE
    /\ pw = NoPassword
    /\ exportProgress = Zero
    /\ exportedUsers = [k \in 1..MaxUsers |-> [id |-> k, OrgunitPath |-> <<>>,
                                               OrgunitUID |-> <<>>]]
    /\ ex = NoExport
    /\ selectedUsers = exportedUsers
    /\ del = NoDeletion
    /\ monitor = <<Effect(connectionStatus, 0)>>
    /\ activeTab = "export"
    /\ isFilterOpen = FALSE
    /\ serverUsers = {exportedUsers[k].id : k \in 1..Len(exportedUsers)}

NextDeleteUser ==
    \/ ClickDeleteSelected
    \/ SettleTimerFires
    \/ \E reply \in [effect : BOOLEAN, result : {"ok", "timeout", "404", "error"}] :
          DeleteAttemptSettles(reply)
    \/ DeleteRetryTimerFires

SpecDeleteUser == InitDeleteUser /\ [][NextDeleteUser]_vars

\* ------------------------------- claims: deleteUser over the transport

\* C33: when a DELETE attempt for a user took effect on the server, so that
\* the user no longer exists when deleteUser returns, deleteUser reports
\* success for the user; so also when an earlier DELETE attempt timed out at
\* the client and the re-send of the DELETE by the transport was answered 404.
C33_EffectiveDeleteIsSuccess ==
    \A k \in 1..Len(Deleted) :
        Deleted[k].id \notin serverUsers => Deleted[k].success

\* ------------------------------------------- the sequential pipelines

\* The app connected, with a password file loaded, the rows of an export all
\* selected, and the log cleared.
InitSequential ==
    /\ users = <<>>
    /\ failedUsers = <<>>
    /\ importStats = [success |-> 0, failed |-> 0]
    /\ processing = FALSE
    /\ progress = 0
    /\ batchSize = DefaultBatchSize
    /\ connectionStatus = "connected"
    /\ shouldStop = FALSE
    /\ log = appendLog(<<>>, <<"Cleared activity logs">>, "success")
    /\ run = NoRun
    /\ chunk = <<>>
    /\ call = NoCall
    /\ passwordUsers = [k \in 1..MaxUsers |-> PasswordUser(k)]
    /\ processingPasswords = FALSE
    /\ pw = NoPassword
    /\ exportProgress = Zero
    /\ exportedUsers = [k \in 1..MaxUsers |-> [id |-> k, OrgunitPath |-> <<>>,
                                               OrgunitUID |-> <<>>]]
    /\ ex = NoExport
    /\ selectedUsers = exportedUsers
    /\ del = NoDeletion
    /\ monitor = <<Effect(connectionStatus, 0)>>
    /\ activeTab = "import"
    /\ isFilterOpen = FALSE
    /\ serverUsers = {exportedUsers[k].id : k \in 1..Len(exportedUsers)}

NextSequential ==
    \/ ClickProcessUpdates
    \/ \E outcome \in {"found", "none", "ok", "error", "200", "201", "204"} :
          PasswordRespond(outcome)
    \/ ClickDeleteSelected
    \/ SettleTimerFires
    \/ \E outcome \in {"ok", "timeout", "404", "error"} : DeletionRespond(outcome)

SpecSequential == InitSequential /\ [][NextSequential]_vars

\* ------------------------------------------------- claims: sequential

\* The requests of the password run and of the deletion run that have no
\* answer yet.
PasswordInFlight == IF pw.pc = "idle" THEN 0 ELSE Len(pw.sent) - Len(pw.answers)

DeletionInFlight == IF del.pc = "idle" THEN 0 ELSE Len(del.sent) - Len(del.answers)

\* C29: the deletion and password pipelines have concurrency 1: at most one
\* request of a pipeline is in flight, a record is started only when the one
\* before it has finished, and the counts are reported in one summary at the
\* end of the run, where they sum to the number of records of the run.
C29_SequentialPipelines ==
    [][/\ PasswordInFlight' <= 1
       /\ DeletionInFlight' <= 1
       /\ pw'.pc # "idle" =>
             /\ Len(pw'.done) = pw'.i
             /\ pw'.successCount + pw'.errorCount = pw'.i
       /\ del'.pc # "idle" => Len(del'.done) = del'.idx - 1
       /\ \A k \in 1..Len(pw'.done) :
             Len(pw'.done[k].sent) = Len(pw'.done[k].answers)
       /\ \A k \in 1..Len(del'.done) :
             Len(del'.done[k].sent) = Len(del'.done[k].answers)
       /\ Len(Lines(log', {"Password update completed"})) =
             Len(Lines(log, {"Password update completed"}))
                + (IF pw.pc # "idle" /\ pw'.pc = "idle" THEN 1 ELSE 0)
       /\ Len(Lines(log', {"Deletion completed"})) =
             Len(Lines(log, {"Deletion completed"}))
                + (IF del.pc # "idle" /\ del'.pc = "idle" THEN 1 ELSE 0)
       /\ (pw.pc # "idle" /\ pw'.pc = "idle") =>
             /\ Text(log'[Len(log')]) = "Password update completed"
             /\ log'[Len(log')].message[2] + log'[Len(log')].message[3]
                   = Len(pw.passwordUsers)
             /\ Len(pw'.done) = Len(pw.passwordUsers)
       /\ (del.pc # "idle" /\ del'.pc = "idle") =>
             /\ Text(log'[Len(log')]) = "Deletion completed"
             /\ log'[Len(log')].message[2] + log'[Len(log')].message[3]
                   = Len(del.selectedUsers)
             /\ log'[Len(log')].message[2] >= 0
             /\ log'[Len(log')].message[3] >= 0
             /\ Len(del'.done) = Len(del.selectedUsers)]_vars

\* A password run and a deletion run of two records each have ended, each
\* with a failure.
C29_Witness ==
    /\ pw.pc = "idle"
    /\ del.pc = "idle"
    /\ Len(pw.done) = 2
    /\ Len(del.done) = 2
    /\ pw.done[2].errorCount = 1
    /\ ~del.done[1].success

\* ----------------------------------------------------- connection monitor

\* The threshold of checkConnection.
monitorMaxRetries == 3

\* The period of the interval of the effect.
ProbeInterval == 30000

\* The variables no step of the monitor changes, status and log apart.
outsideMonitor ==
    <<importVars, processing, progress, transportVars, pwVars, exVars, delVars,
      viewVars, serverVars>>

\* The runs of the effect that can still act: one whose interval was cleared
\* and that has no probe in flight and no timer is dropped.
Live(m) ==
    SelectSeq(SubSeq(m, 1, Len(m) - 1),
              LAMBDA e : e.inflight > 0 \/ e.timers # <<>>)

\* The app rendered again with connectionStatus status: appendLog and apiRequest
\* are new functions, so the effect is cleaned up (its interval is cleared, its
\* probes and timers are not) and runs again with a new closure, which probes
\* at once. The last run is the one with the interval.
Rerun(m, status) == Append(Live(Append(m, Effect(status, 0))), Effect(status, 1))

\* The delay of the backoff timer after the failure that made the counter
\* failures.
BackoffDelay(failures) == 1000 * Pow2(failures)

\* A probe of run c (the ping, with the transport's attempts) succeeded.
ProbeSucceeds(c) ==
    /\ c \in 1..Len(monitor)
    /\ monitor[c].inflight > 0
    /\ Len(log) < MaxLog
    /\ LET m == [monitor EXCEPT ![c].inflight = @ - 1, ![c].retries = 0]
       IN  IF monitor[c].seen # "connected"
           THEN /\ Len(Live(Append(m, Effect("connected", 0)))) < MaxEffects
                /\ connectionStatus' = "connected"
                /\ log' = appendLog(log, <<"Server connected">>, "success")
                /\ monitor' = Rerun(m, "connected")
           ELSE /\ monitor' = m
                /\ UNCHANGED <<connectionStatus, log>>
    /\ UNCHANGED outsideMonitor

\* A probe of run c failed: the counter grows; at the threshold the status
\* becomes disconnected, else the probe is scheduled again.
ProbeFails(c) ==
    /\ c \in 1..Len(monitor)
    /\ monitor[c].inflight > 0
    /\ Len(log) < MaxLog
    /\ monitor[c].retries < MaxFailures
    /\ LET failures == monitor[c].retries + 1
           m == [monitor EXCEPT ![c].inflight = @ - 1, ![c].retries = failures]
       IN  IF failures >= monitorMaxRetries /\ monitor[c].seen # "disconnected"
           THEN /\ Len(Live(Append(m, Effect("disconnected", 0)))) < MaxEffects
                /\ connectionStatus' = "disconnected"
                /\ log' = appendLog(log, <<"Failed to connect to server after retries">>,
                                    "error")
                /\ monitor' = Rerun(m, "disconnected")
           ELSE /\ monitor' = [m EXCEPT ![c].timers = Append(@, BackoffDelay(failures))]
                /\ UNCHANGED <<connectionStatus, log>>
    /\ UNCHANGED outsideMonitor

\* The backoff timer k of run c fires: checkConnection runs again.
BackoffTimerFires(c, k) ==
    /\ c \in 1..Len(monitor)
    /\ k \in 1..Len(monitor[c].timers)
    /\ monitor' = [monitor EXCEPT
                      ![c].timers = SubSeq(@, 1, k - 1) \o SubSeq(@, k + 1, Len(@)),
                      ![c].inflight = @ + 1]
    /\ UNCHANGED <<connectionStatus, log, outsideMonitor>>

\* The interval of the last run of the effect fires.
IntervalFires ==
    /\ monitor[Len(monitor)].inflight + Len(monitor[Len(monitor)].timers) < MaxProbes
    /\ monitor' = [monitor EXCEPT ![Len(monitor)].inflight = @ + 1]
    /\ UNCHANGED <<connectionStatus, log, outsideMonitor>>

\* Another state of the app changed (a file was chosen, a line was logged)
\* and the app rendered again.
Render ==
    /\ Len(Live(Append(monitor, Effect(connectionStatus, 0)))) < MaxEffects
    /\ monitor' = Rerun(monitor, connectionStatus)
    /\ UNCHANGED <<connectionStatus, log, outsideMonitor>>

\* The app as mounted: the first run of the effect has sent its probe.
InitMonitor ==
    /\ users = <<>>
    /\ failedUsers = <<>>
    /\ importStats = [success |-> 0, failed |-> 0]
    /\ processing = FALSE
    /\ progress = 0
    /\ batchSize = DefaultBatchSize
    /\ connectionStatus = "checking..."
    /\ shouldStop = FALSE
    /\ log = <<>>
    /\ run = NoRun
    /\ chunk = <<>>
    /\ call = NoCall
    /\ passwordUsers = <<>>
    /\ processingPasswords = FALSE
    /\ pw = NoPassword
    /\ exportProgress = Zero
    /\ exportedUsers = <<>>
    /\ ex = NoExport
    /\ selectedUsers = <<>>
    /\ del = NoDeletion
    /\ monitor = <<Effect(connectionStatus, 1)>>
    /\ activeTab = "import"
    /\ isFilterOpen = FALSE
    /\ serverUsers = {exportedUsers[k].id : k \in 1..Len(exportedUsers)}

NextMonitor ==
    \/ \E c \in 1..MaxEffects : ProbeSucceeds(c)
    \/ \E c \in 1..MaxEffects : ProbeFails(c)
    \/ \E c \in 1..MaxEffects, k \in 1..MaxProbes : BackoffTimerFires(c, k)
    \/ IntervalFires
    \/ Render

SpecMonitor == InitMonitor /\ [][NextMonitor]_vars

\* ------------------------------------------------------ claims: monitor

\* The step logs one line, with this text.
Logs(text) ==
    /\ Len(log') = Len(log) + 1
    /\ Text(log'[Len(log')]) = text

\* C23: the monitor is edge-triggered under every interleaving of its probes:
\* the disconnect is logged once, on the step that makes the status
\* disconnected, which is a third failure in a row; a success from a status
\* other than connected makes it connected and is logged once; a probe outcome
\* that leaves the status as it is logs nothing.
C23_MonitorEdgeTriggered ==
    [][/\ Logs("Server connected") <=>
             (connectionStatus # "connected" /\ connectionStatus' = "connected")
       /\ Logs("Failed to connect to server after retries") <=>
             (connectionStatus # "disconnected" /\ connectionStatus' = "disconnected")
       /\ connectionStatus' = connectionStatus => log' = log
       /\ (connectionStatus # "disconnected" /\ connectionStatus' = "disconnected") =>
             \E c \in 1..Len(monitor) : monitor[c].retries = 2]_vars

\* C28: while the count of failures in a row is below 3, the probe after a
\* failure is scheduled with the backoff 1 s * 2^retries; once the count is 3
\* or more no backoff probe is scheduled: a step in which a run of the effect
\* counts a failure and sets a timer leaves its count below 3.
C28_MonitorCadence ==
    [][\A c \in 1..Len(monitor) :
          (/\ Len(monitor') = Len(monitor)
           /\ log' = log
           /\ \A d \in 1..Len(monitor) : d # c => monitor'[d] = monitor[d]
           /\ monitor'[c].seen = monitor[c].seen
           /\ monitor'[c].retries = monitor[c].retries + 1
           /\ Len(monitor'[c].timers) = Len(monitor[c].timers) + 1) =>
              /\ monitor'[c].retries < 3
              /\ monitor'[c].timers[Len(monitor'[c].timers)]
                    = 1000 * Pow2(monitor'[c].retries)]_vars

\* The probes in flight of the runs m of the effect.
RECURSIVE ProbesInFlight(_)
ProbesInFlight(m) ==
    IF m = <<>> THEN 0 ELSE Head(m).inflight + ProbesInFlight(Tail(m))

\* C37: at most one connection probe (the ping with the transport's attempts)
\* is in flight at any time, whatever the server does and however the status
\* changes.
C37_OneProbeInFlight == ProbesInFlight(monitor) <= 1

\* ----------------------------------------------------------- the gate

\* The app before a probe of the present monitor is answered, with one record
\* uploaded in each file (the import file imported before or not), one row
\* exported, and the log cleared.
InitGate ==
    /\ users = <<User(1, 1, 1)>>
    /\ failedUsers \in {<<>>, users}
    /\ importStats = [success |-> 0, failed |-> Len(failedUsers)]
    /\ processing = FALSE
    /\ progress = 0
    /\ batchSize = DefaultBatchSize
    /\ connectionStatus = "checking..."
    /\ shouldStop = FALSE
    /\ log = appendLog(<<>>, <<"Cleared activity logs">>, "success")
    /\ run = NoRun
    /\ chunk = <<>>
    /\ call = NoCall
    /\ passwordUsers = <<PasswordUser(1)>>
    /\ processingPasswords = FALSE
    /\ pw = NoPassword
    /\ exportProgress = Zero
    /\ exportedUsers = <<Project(ServedUser(1, <<OrgUnit(4, 1)>>))>>
    /\ ex = NoExport
    /\ selectedUsers = <<>>
    /\ del = NoDeletion
    /\ monitor = <<Effect(connectionStatus, 1)>>
    /\ activeTab = "import"
    /\ isFilterOpen = FALSE
    /\ serverUsers = {exportedUsers[k].id : k \in 1..Len(exportedUsers)}

NextGate ==
    \/ \E c \in 1..MaxEffects : ProbeSucceeds(c)
    \/ \E c \in 1..MaxEffects : ProbeFails(c)
    \/ \E c \in 1..MaxEffects, k \in 1..MaxProbes : BackoffTimerFires(c, k)
    \/ ClickStartImport
    \/ ClickRetryFailed
    \/ \E k \in 1..MaxUsers, outcome \in {"found", "none", "error", "ok", "conflict"} :
          Respond(k, outcome)
    \/ ClickProcessUpdates
    \/ \E outcome \in {"found", "none", "ok", "error", "200", "201", "204"} :
          PasswordRespond(outcome)
    \/ \E k \in 1..Len(exportedUsers) : ToggleUserSelection(exportedUsers[k])
    \/ ClickDeleteSelected
    \/ SettleTimerFires
    \/ \E outcome \in {"ok", "timeout", "404", "error"} : DeletionRespond(outcome)

SpecGate == InitGate /\ [][NextGate]_vars

\* -------------------------------------------------------- claims: the gate

\* A run of the import engine (a retry included), of the deletion pipeline or
\* of the password pipeline begins in this step.
RunStarts ==
    \/ run.pc = "idle" /\ run'.pc # "idle"
    \/ del.pc = "idle" /\ del'.pc # "idle"
    \/ pw.pc = "idle" /\ pw'.pc # "idle"

\* C2: an import run (retry-failed included), a deletion run and a password
\* run start only in a state whose connectionStatus is connected; in any other
\* status no run starts and no request is issued, and no run is started by the
\* status becoming connected later (nothing is queued).
C2_ConnectionGate ==
    [][RunStarts => /\ connectionStatus = "connected"
                    /\ connectionStatus' = "connected"]_vars

\* The status became connected after the app was checking, and then an import
\* run and a password run were started and are awaiting their requests.
C2_Witness ==
    /\ run.pc # "idle"
    /\ pw.pc # "idle"
    /\ connectionStatus = "connected"
    /\ \E k \in 1..Len(log) : Text(log[k]) = "Server connected"

\* ---------------------------------------------------------------- the view

\* The tabs of the app.
Tabs == {"import", "export", "passwords"}

\* The filter toggle button is part of the document: the export tab is on
\* display and the last export has rows.
FilterToggleRendered == activeTab = "export" /\ Len(exportedUsers) > 0

\* The texts of the filter toggle button in the document.
FilterToggleTexts ==
    IF FilterToggleRendered
    THEN {IF isFilterOpen THEN "Hide Filters" ELSE "Show Filters"}
    ELSE {}

\* A click on a tab button.
ClickTab(tab) ==
    /\ tab \in Tabs
    /\ activeTab' = tab
    /\ UNCHANGED <<importVars, processing, progress, connectionStatus, log,
                   transportVars, pwVars, exVars, delVars, monVars, isFilterOpen,
                   serverVars>>

\* A click on the filter toggle button, which takes the button on display.
ClickToggleFilters ==
    /\ FilterToggleRendered
    /\ isFilterOpen' = ~isFilterOpen
    /\ UNCHANGED <<importVars, processing, progress, connectionStatus, log,
                   transportVars, pwVars, exVars, delVars, monVars, activeTab,
                   serverVars>>

\* The app as first rendered: the import tab, nothing uploaded or exported,
\* the log empty, the monitor's first probe in flight.
InitView ==
    /\ users = <<>>
    /\ failedUsers = <<>>
    /\ importStats = [success |-> 0, failed |-> 0]
    /\ processing = FALSE
    /\ progress = 0
    /\ batchSize = DefaultBatchSize
    /\ connectionStatus = "checking..."
    /\ shouldStop = FALSE
    /\ log = <<>>
    /\ run = NoRun
    /\ chunk = <<>>
    /\ call = NoCall
    /\ passwordUsers = <<>>
    /\ processingPasswords = FALSE
    /\ pw = NoPassword
    /\ exportProgress = Zero
    /\ exportedUsers = <<>>
    /\ ex = NoExport
    /\ selectedUsers = <<>>
    /\ del = NoDeletion
    /\ monitor = <<Effect(connectionStatus, 1)>>
    /\ activeTab = "import"
    /\ isFilterOpen = FALSE
    /\ serverUsers = {exportedUsers[k].id : k \in 1..Len(exportedUsers)}

\* The answers to the page requests of the view's exports: those of one page,
\* since the view reads of the rows only whether there are any.
ViewAnswers == {answer \in PageAnswers : answer.kind = "page" => ~answer.nextPage}

\* The Fetch Users button is on the export tab; the answers to a run's
\* requests arrive whatever tab is on display.
NextView ==
    \/ \E tab \in Tabs : ClickTab(tab)
    \/ ClickToggleFilters
    \/ activeTab = "export" /\ ClickFetchUsers
    \/ \E answer \in ViewAnswers : ExportRespond(answer)

SpecView == InitView /\ [][NextView]_vars

\* ------------------------------------------------------- claims: the view

\* C26: on the initial render of the app (the import tab active, no users
\* exported yet) the filter toggle button labelled 'Show Filters' is on
\* display.
C26_ShowFiltersOnInitialRender ==
    (activeTab = "import" /\ exportedUsers = <<>> /\ ~isFilterOpen) =>
        "Show Filters" \in FilterToggleTexts

\* ----------------------------------------------------- the four pipelines

\* The app connected, after an import run whose first record failed, with a
\* password file of one record loaded, the one row of an export selected, and
\* the log cleared.
InitBusy ==
    /\ users = [k \in 1..MaxUsers |-> User(k, 1, 1)]
    /\ failedUsers = <<User(1, 1, 1)>>
    /\ importStats = [success |-> MaxUsers - 1, failed |-> 1]
    /\ processing = FALSE
    /\ progress = 100
    /\ batchSize = DefaultBatchSize
    /\ connectionStatus = "connected"
    /\ shouldStop = FALSE
    /\ log = appendLog(<<>>, <<"Cleared activity logs">>, "success")
    /\ run = [NoRun EXCEPT !.retryUsers = users,
                           !.results = [k \in 1..MaxUsers |->
                                           [user |-> users[k], success |-> k > 1,
                                            sent |-> <<"GET", "PUT">>,
                                            answers |-> <<"found",
                                                          IF k > 1 THEN "ok"
                                                          ELSE "error">>]]]
    /\ chunk = <<>>
    /\ call = NoCall
    /\ passwordUsers = <<PasswordUser(1)>>
    /\ processingPasswords = FALSE
    /\ pw = NoPassword
    /\ exportProgress = Zero
    /\ exportedUsers = <<[id |-> 1, OrgunitPath |-> <<>>, OrgunitUID |-> <<>>]>>
    /\ ex = NoExport
    /\ selectedUsers = exportedUsers
    /\ del = NoDeletion
    /\ monitor = <<Effect(connectionStatus, 0)>>
    /\ activeTab = "import"
    /\ isFilterOpen = FALSE
    /\ serverUsers = {exportedUsers[k].id : k \in 1..Len(exportedUsers)}

\* The answers to the page requests of these exports: an error, a status, or
\* a page without users, the last or not, since the busy flag of a run does
\* not depend on the rows.
BusyAnswers ==
    {answer \in PageAnswers :
        answer.kind = "page" => answer.users = <<>> /\ answer.totalPages = MaxPages}

\* The start buttons of the four pipelines and the answers to their requests.
NextBusy ==
    \/ ClickStartImport
    \/ ClickRetryFailed
    \/ \E k \in 1..MaxUsers, outcome \in {"found", "none", "error", "ok", "conflict"} :
          Respond(k, outcome)
    \/ ClickProcessUpdates
    \/ \E outcome \in {"found", "none", "ok", "error", "200", "201", "204"} :
          PasswordRespond(outcome)
    \/ ClickFetchUsers
    \/ \E answer \in BusyAnswers : ExportRespond(answer)
    \/ ClickDeleteSelected
    \/ SettleTimerFires
    \/ \E outcome \in {"ok", "timeout", "404", "error"} : DeletionRespond(outcome)

SpecBusy == InitBusy /\ [][NextBusy]_vars

\* ------------------------------------------ claims: the four pipelines

\* The step logs the first line of a run, the one with the given text.
LogsStart(text) == Len(Lines(log', {text})) > Len(Lines(log, {text}))

\* The step calls deleteUser for the first row of a run of the deletion.
DeletionStarts ==
    /\ del' # del
    /\ del'.pc = "get"
    /\ del'.idx = 1
    /\ del'.done = <<>>
    /\ Len(del'.sent) = 1
    /\ del'.answers = <<>>

\* C24: at most one run of each pipeline (import with its retry, deletion,
\* export, password update) is active at a time: while a run of a pipeline is
\* active its busy flag is set, and no step starts a run of that pipeline, so
\* that a second start is rejected and starts nothing.
C24_OneRunPerPipeline ==
    [][/\ run.pc # "idle" =>
             /\ processing
             /\ ~LogsStart("Starting import")
             /\ run'.pc # "idle" => run'.retryUsers = run.retryUsers
       /\ del.pc # "idle" =>
             /\ processing
             /\ ~DeletionStarts
             /\ del'.pc # "idle" => del'.selectedUsers = del.selectedUsers
       /\ ex.pc # "idle" =>
             /\ processing
             /\ ~LogsStart("Starting DHIS2 user export")
       /\ pw.pc # "idle" =>
             /\ processingPasswords
             /\ ~LogsStart("Starting password update")
             /\ pw'.pc # "idle" => pw'.passwordUsers = pw.passwordUsers
       /\ Cardinality({p \in {run.pc, del.pc, ex.pc} : p # "idle"}) <= 1]_vars

\* An import run and a password run are both awaiting a request while the log
\* has room for the clicks on their start buttons, which are disabled.
C24_Witness ==
    /\ run.pc # "idle"
    /\ pw.pc # "idle"
    /\ Len(log) < MaxLog
    /\ StartImportDisabled
    /\ RetryFailedDisabled
    /\ ProcessUpdatesDisabled
    /\ DeleteSelectedDisabled

\* C36: bulk runs exclude each other across the pipelines: a password run is
\* never active together with an import, deletion or export run, so that the
\* shared progress is written by one active run only.
C36_PipelinesExclusive ==
    pw.pc # "idle" => (run.pc = "idle" /\ del.pc = "idle" /\ ex.pc = "idle")

\* ------------------------------------------------------------------ the log

\* The variables no step of the log changes.
outsideLog ==
    <<importVars, processing, progress, connectionStatus, transportVars, pwVars,
      exVars, delVars, monVars, viewVars, serverVars>>

\* The number of the next line: the lines appended are numbered in turn, as
\* their timestamps tell them apart, and the numbers start again after
\* LogCap + 1 lines.
NextLine(l) ==
    IF l # <<>> /\ l[Len(l)].message[1] = "Line"
    THEN (l[Len(l)].message[2] % (LogCap + 1)) + 1
    ELSE 1

\* Some handler calls appendLog.
AppendLine ==
    /\ log' = appendLog(log, <<"Line", NextLine(log)>>, "info")
    /\ UNCHANGED outsideLog

\* Clear Logs, confirmed: clearLogs.
ClearLogs ==
    /\ log' = appendLog(<<>>, <<"Cleared activity logs">>, "success")
    /\ UNCHANGED outsideLog

\* The app as first rendered, the log empty.
InitLog == InitView

NextLog ==
    \/ AppendLine
    \/ ClearLogs

SpecLog == InitLog /\ [][NextLog]_vars

\* ------------------------------------------------------- claims: the log

\* The last n elements of s, in order.
LastOf(s, n) == SubSeq(s, IF Len(s) > n THEN Len(s) - n + 1 ELSE 1, Len(s))

\* C40: the log never holds more than 100 lines, and after every append it
\* is the lines it held with the new line after them, the oldest dropped
\* when there would be more than 100; a clear leaves its own line only.
C40_LogBounded ==
    /\ [](Len(log) <= 100)
    /\ [][\/ log' = <<Entry(<<"Cleared activity logs">>, "success")>>
          \/ /\ log' # <<>>
             /\ log' = LastOf(Append(log, log'[Len(log')]), 100)]_vars

\* The log is full, the first line appended was dropped, and the 100 lines
\* held are in the order of their numbers.
C40_Witness ==
    /\ Len(log) = 100
    /\ \A k \in 1..Len(log) : log[k].message = <<"Line", k + 1>>

====
